---- MODULE Spec2Model ----
(***************************************************************************)
(* Clipmaker: timeline composition and rendering engine.                   *)
(*                                                                         *)
(* The module holds one state machine per component of the engine:         *)
(*   - the rhythmic timing normalizer (StoryboardService._normalize_segments)*)
(*   - the timeline assembler (RenderService.render / _create_clips)       *)
(*   - the motion effect generator (RenderService._apply_effect)           *)
(*   - the subtitle layout / karaoke renderer                              *)
(*   - the SRT time utilities of SubtitleService                           *)
(* Each component has its own specification (SpecNorm, SpecRender, ...);   *)
(* the variables of the other components stay at their idle value.         *)
(*                                                                         *)
(* Python floats that hold times are modelled as exact rationals <<n, d>>  *)
(* (d > 0, lowest terms), except in the SRT time utilities, where the      *)
(* rounding of binary floating point decides the result and is modelled.   *)
(***************************************************************************)
EXTENDS Integers, Sequences, FiniteSets, TLC

VARIABLES
    \* ---- timing normalizer
    nz_pc,          \* "call" | "loop" | "post" | "done"
    nz_in,          \* the arguments of the call
    segments,       \* the segment list being rewritten in place
    current_time,   \* running start time of the loop
    nz_i,           \* loop index (0-based, as in the code)
    scale_factor,   \* duration / total_suggested
    nz_trace        \* per segment: what the loop resolved (start used, ideal_end)

normVars == <<nz_pc, nz_in, segments, current_time, nz_i, scale_factor, nz_trace>>

VARIABLES
    \* ---- project store (ProjectRepository / FileStorage)
    stored_segments,  \* segments.json
    images,           \* images/{id}_v{version}.png: the <<id, version>> that exist
    prompts,          \* prompts.json: id |-> version of the current prompt
    audio_present,    \* source/track.* exists
    renders,          \* renders/final_v{n}.mp4: n |-> "complete" | "partial"
    \* ---- one RenderService.render invocation
    r_pc,             \* "idle" | "clips" | "save" | "subs" | "path" | "write"
                      \* | "done" | "failed"
    r_segments,       \* the list loaded by get_segments, mutated in place
    r_i,              \* index of the segment _create_clips works on (1-based)
    r_clips,          \* clips built so far
    r_video,          \* the concatenated video: clip start times and duration
    r_output,         \* n of the output path final_v{n}.mp4
    \* ---- history
    r_before,         \* store contents when the current invocation began
    r_count,          \* invocations so far
    rendered          \* per segment index: the clip kinds of completed renders

storeVars == <<stored_segments, images, prompts, audio_present, renders>>
renderVars == <<r_pc, r_segments, r_i, r_clips, r_video, r_output,
                r_before, r_count, rendered>>

VARIABLES
    \* ---- one RenderService._apply_effect call and the frames of its clip
    fx_pc,            \* "idle" | "call" | "ready"
    fx_in,            \* the image size, the target size, the effect, zoom_level
    fx_img,           \* the (possibly upscaled) source and its cover crop
    fx_frame          \* the crop and size of the frame make_frame returned last

cropVars == <<fx_pc, fx_in, fx_img, fx_frame>>

VARIABLES
    \* ---- one subtitle cue in RenderService._add_subtitles
    kl_pc,            \* "idle" | "cue" | "laid" | "done"
    kl_in,            \* the cue text, the font metrics and the styling
    kl_layout,        \* the dict _layout_text returned
    kl_i,             \* index of the karaoke loop
    kl_start,         \* current_start of the karaoke loop
    kl_frames         \* the text clips added: what _render_layout drew, and when

layoutVars == <<kl_pc, kl_in, kl_layout, kl_i, kl_start, kl_frames>>

VARIABLES
    \* ---- the SRT time utilities of SubtitleService
    st_pc,            \* "idle" | "start" | "encoded" | "parsed" | "done"
    st_in,            \* a time with millisecond precision: its decimal digits
    st_text,          \* seconds_to_srt_time of the time as a float
    st_seconds,       \* what srt_time_to_seconds returned
    st_round          \* seconds_to_srt_time(st_seconds)

srtVars == <<st_pc, st_in, st_text, st_seconds, st_round>>

VARIABLES
    \* ---- one RenderService._position_and_add_clip call
    pl_pc,            \* "idle" | "call" | "word" | "placed"
    pl_in,            \* the overlay size, the frame size, position, margin_y,
                      \* the cue and the styling
    pl_clip,          \* the overlay as added: its size and its position
    pl_anim,          \* the entrance and exit windows of the overlay
    pl_bg             \* the background boxes added, with their windows

placeVars == <<pl_pc, pl_in, pl_clip, pl_anim, pl_bg>>

VARIABLES
    \* ---- one run of PipelineService.run_full_pipeline or render_only
    jb_pc,            \* "idle" | "begin" | "running" | "done" | "failed"
    jb_in,            \* the entry point, the totals of the encoder's progress bars
    jb_step,          \* the step under way
    jb_attempt,       \* attempt of _run_step
    jb_images_p,      \* the last percentage the image service reported
    jb_bars,          \* the logger's state["bars"]: bar |-> index
    jb_last_pct,      \* MoviePyProgressLogger.last_pct
    jb_log,           \* the progress values written to the job record, in order
    jb_job,           \* the job record: its status and whether it holds "error"
    jb_project,       \* the status of the project
    jb_runs           \* runs started so far

jobVars == <<jb_pc, jb_in, jb_step, jb_attempt, jb_images_p, jb_bars, jb_last_pct, jb_log,
             jb_job, jb_project, jb_runs>>

VARIABLES
    \* ---- one RenderService._apply_transition call and the frames of its clip
    tr_pc,            \* "idle" | "call" | "playing"
    tr_in,            \* the transition, the frame size, the frame rate
    tr_frames         \* per frame asked for so far: its time t and clip.pos(t)

transVars == <<tr_pc, tr_in, tr_frames>>

VARIABLES
    \* ---- requests served at the same time: POST /render (render_only in a
    \* worker thread) and PATCH /segments/{seg_id} (update_segment)
    rq_pc,            \* per render request: "idle" | "loaded" | "saved" | "path"
                      \* | "writing" | "done"
    rq_segments,      \* per render request: the list loaded by get_segments
    rq_output,        \* per render request: n of its output path final_v{n}.mp4
    rq_writes,        \* the output files opened for writing, in order
    ed_pc,            \* the edit request: "idle" | "loaded" | "done"
    ed_in,            \* the edit request: seg_id and the payload
    ed_segments       \* the edit request: the list loaded by get_segments

reqVars == <<rq_pc, rq_segments, rq_output, rq_writes, ed_pc, ed_in, ed_segments>>

VARIABLES
    \* ---- the stored subtitle file and its two parsers
    cf_pc,            \* "idle" | "start" | "stored" | "loaded" | "rendered"
    cf_in,            \* the upload of import_srt or the entries of update_entries
    cf_file,          \* subtitles.srt, as its lines
    cf_entries,       \* what SubtitleService._parse_srt returned
    cf_cues           \* what RenderService._parse_srt_file returned

cueVars == <<cf_pc, cf_in, cf_file, cf_entries, cf_cues>>

VARIABLES
    \* ---- ProductionPipeline with its InMemoryDB and InMemoryQueue
    pp_state,         \* db.projects[project_id].state
    pp_audio_uri,     \* project.audio_uri: "" | "track" | "final"
    pp_queue,         \* InMemoryQueue._queue, the jobs waiting
    pp_segments,      \* db.segments[project_id]: the segment ids, <<0>> when unset
    pp_prompts,       \* db.prompts[project_id]: the version per segment, <<0>> when unset
    pp_assets,        \* db.assets[project_id], in the order appended
    pp_ran,           \* the jobs that run_next has run, in order
    pp_regenerated    \* the calls of regenerate_segment made

prodVars == <<pp_state, pp_audio_uri, pp_queue, pp_segments, pp_prompts, pp_assets,
              pp_ran, pp_regenerated>>

vars == <<normVars, storeVars, renderVars, cropVars, layoutVars, srtVars,
          placeVars, jobVars, transVars, reqVars, cueVars, prodVars>>

\* what the actions of one component leave alone
notNorm == <<storeVars, renderVars, cropVars, layoutVars, srtVars,
             placeVars, jobVars, transVars, reqVars, cueVars, prodVars>>
notRender == <<normVars, cropVars, layoutVars, srtVars, placeVars,
               jobVars, transVars, reqVars, cueVars, prodVars>>
notCrop == <<normVars, storeVars, renderVars, layoutVars, srtVars,
             placeVars, jobVars, transVars, reqVars, cueVars, prodVars>>
notLayout == <<normVars, storeVars, renderVars, cropVars, srtVars,
               placeVars, jobVars, transVars, reqVars, cueVars, prodVars>>
notSrt == <<normVars, storeVars, renderVars, cropVars, layoutVars,
            placeVars, jobVars, transVars, reqVars, cueVars, prodVars>>
notPlace == <<normVars, storeVars, renderVars, cropVars, layoutVars,
              srtVars, jobVars, transVars, reqVars, cueVars, prodVars>>
notJob == <<normVars, storeVars, renderVars, cropVars, layoutVars,
            srtVars, placeVars, transVars, reqVars, cueVars, prodVars>>
notTrans == <<normVars, storeVars, renderVars, cropVars, layoutVars,
              srtVars, placeVars, jobVars, reqVars, cueVars, prodVars>>
notReq == <<normVars, renderVars, cropVars, layoutVars, srtVars,
            placeVars, jobVars, transVars, cueVars, prodVars>>
notCue == <<normVars, storeVars, renderVars, cropVars, layoutVars,
            srtVars, placeVars, jobVars, transVars, reqVars, prodVars>>
notProd == <<normVars, storeVars, renderVars, cropVars, layoutVars,
             srtVars, placeVars, jobVars, transVars, reqVars, cueVars>>

----------------------------------------------------------------------------
(* Exact rational arithmetic: <<n, d>> with d > 0 and gcd(n, d) = 1.        *)

Abs(x) == IF x < 0 THEN -x ELSE x

RECURSIVE Gcd(_, _)
Gcd(a, b) == IF b = 0 THEN a ELSE Gcd(b, a % b)

RNorm(n, d) ==
    LET s == IF d < 0 THEN -1 ELSE 1
        g == Gcd(Abs(n), Abs(d))
    IN  <<(s * n) \div g, (s * d) \div g>>

R(n) == <<n, 1>>
Frac(n, d) == RNorm(n, d)
\* (the operations reduce by common factors before they multiply, to keep the
\* intermediate integers small)
RAdd(a, b) ==
    LET g == Gcd(a[2], b[2])
    IN  RNorm(a[1] * (b[2] \div g) + b[1] * (a[2] \div g), (a[2] \div g) * b[2])
RNeg(a) == <<-a[1], a[2]>>
RSub(a, b) == RAdd(a, RNeg(b))
RMul(a, b) ==
    LET g1 == Gcd(Abs(a[1]), b[2])
        g2 == Gcd(Abs(b[1]), a[2])
    IN  RNorm((a[1] \div g1) * (b[1] \div g2), (a[2] \div g2) * (b[2] \div g1))
RDiv(a, b) == RMul(a, RNorm(b[2], b[1]))
RLt(a, b) ==
    LET g == Gcd(a[2], b[2])
    IN  a[1] * (b[2] \div g) < b[1] * (a[2] \div g)
RLe(a, b) ==
    LET g == Gcd(a[2], b[2])
    IN  a[1] * (b[2] \div g) <= b[1] * (a[2] \div g)
RGt(a, b) == RLt(b, a)
RGe(a, b) == RLe(b, a)
RMin(a, b) == IF RLt(b, a) THEN b ELSE a
RMax(a, b) == IF RGt(b, a) THEN b ELSE a
RAbs(a) == <<Abs(a[1]), a[2]>>
RZero == <<0, 1>>
ROne == <<1, 1>>

\* floor of a rational
RFloor(a) == a[1] \div a[2]

\* Python's round(): to the nearest integer, halves to the even one
RRound(a) ==
    LET f == RFloor(a)
        twice == 2 * (a[1] - f * a[2])      \* 2 * fractional part * d
    IN  IF twice < a[2] THEN f
        ELSE IF twice > a[2] THEN f + 1
        ELSE IF f % 2 = 0 THEN f ELSE f + 1

\* Python's int(): truncation toward zero
RTrunc(a) == IF a[1] >= 0 THEN a[1] \div a[2] ELSE -((-a[1]) \div a[2])

RECURSIVE RSum(_)
RSum(s) == IF s = <<>> THEN RZero ELSE RAdd(Head(s), RSum(Tail(s)))

\* the elements of a finite set of rationals in ascending order
RECURSIVE RSorted(_)
RSorted(S) ==
    IF S = {} THEN <<>>
    ELSE LET m == CHOOSE x \in S : \A y \in S : RLe(x, y)
         IN  <<m>> \o RSorted(S \ {m})

SeqToSet(s) == {s[k] : k \in 1..Len(s)}

----------------------------------------------------------------------------
(* Rhythmic timing normalizer                                               *)

MAX_DURATION == R(6)
MIN_DURATION == Frac(1, 2)

\* bounds of the checked inputs
MaxSegments == 4

\* suggested (AI) segment lengths end - start, in seconds
SuggestedDurations == {R(0), R(1), R(10)}
\* total audio durations, in seconds
TotalDurations == {Frac(1, 2), R(2), R(20)}

NoScenes == <<>>
TwoScenes == << <<R(0), R(1)>>, <<R(1), R(5)>> >>
SplitScenes == << <<R(0), Frac(99, 10)>>, <<Frac(99, 10), R(20)>> >>
FourBeats == <<Frac(1, 2), R(1), Frac(3, 2), R(2)>>

\* the audio analyses checked: technical_stats (beat_times and beat_strengths,
\* parallel lists with the strengths optional, beat_confidence, bpm) and the
\* start/end times of the analysis scenes
Analyses ==
    { [times |-> <<>>, strengths |-> <<>>, confidence |-> R(0), bpm |-> R(0),
       scenes |-> NoScenes],
      [times |-> <<>>, strengths |-> <<>>, confidence |-> R(0), bpm |-> R(0),
       scenes |-> TwoScenes],
      [times |-> <<>>, strengths |-> <<>>, confidence |-> R(0), bpm |-> R(0),
       scenes |-> SplitScenes],
      [times |-> <<>>, strengths |-> <<>>, confidence |-> Frac(3, 5), bpm |-> R(120),
       scenes |-> NoScenes],
      [times |-> <<Frac(3, 10)>>, strengths |-> <<>>,
       confidence |-> Frac(3, 5), bpm |-> R(0), scenes |-> NoScenes],
      [times |-> <<Frac(3, 10)>>, strengths |-> <<>>,
       confidence |-> Frac(1, 5), bpm |-> R(0), scenes |-> NoScenes],
      [times |-> FourBeats, strengths |-> <<Frac(1, 5), R(1), Frac(1, 5), Frac(4, 5)>>,
       confidence |-> Frac(3, 5), bpm |-> R(120), scenes |-> NoScenes],
      [times |-> FourBeats, strengths |-> <<>>,
       confidence |-> Frac(3, 5), bpm |-> R(120), scenes |-> TwoScenes],
      [times |-> FourBeats, strengths |-> <<>>,
       confidence |-> Frac(1, 5), bpm |-> R(120), scenes |-> NoScenes],
      [times |-> <<R(7)>>, strengths |-> <<>>, confidence |-> Frac(3, 5), bpm |-> R(0),
       scenes |-> TwoScenes],
      [times |-> <<R(7)>>, strengths |-> <<>>, confidence |-> Frac(1, 10), bpm |-> R(0),
       scenes |-> NoScenes] }

\* the segment list as the storyboard model suggests it: back to back from 0
RECURSIVE SuggestedSegments(_, _)
SuggestedSegments(durs, from) ==
    IF durs = <<>> THEN <<>>
    ELSE <<[start_time |-> from, end_time |-> RAdd(from, Head(durs)),
            orig |-> RZero]>>
         \o SuggestedSegments(Tail(durs), RAdd(from, Head(durs)))

\* the calls checked: the beats of an analysis lie within the track
NormInputs ==
    { in \in
        { [sugg |-> sg, duration |-> d, beat_times |-> an.times,
           beat_strengths |-> an.strengths, beat_confidence |-> an.confidence,
           bpm |-> an.bpm, scenes |-> an.scenes] :
            sg \in UNION { [1..n -> SuggestedDurations] : n \in 1..MaxSegments },
            d \in TotalDurations,
            an \in Analyses } :
        \A k \in 1..Len(in.beat_times) : RLe(in.beat_times[k], in.duration) }

\* seg_duration of the first pass: max(0.1, e - s), capped at MAX_DURATION * 1.5
OrigDuration(seg) ==
    RMin(RMax(Frac(1, 10), RSub(seg.end_time, seg.start_time)),
         RMul(MAX_DURATION, Frac(3, 2)))

TotalSuggested(segs) == RSum([k \in 1..Len(segs) |-> OrigDuration(segs[k])])

ScaleFactor(in, segs) ==
    LET total == TotalSuggested(segs)
    IN  IF RGt(total, RZero) THEN RDiv(in.duration, total) ELSE ROne

\* beat_strength_map.get(t, 0.0): the zipped strengths when the lists are
\* parallel, 0.5 for every beat otherwise
GetStrength(in, t) ==
    IF \E k \in 1..Len(in.beat_times) : in.beat_times[k] = t
    THEN IF in.beat_strengths # <<>> /\ Len(in.beat_strengths) = Len(in.beat_times)
         THEN in.beat_strengths[CHOOSE k \in 1..Len(in.beat_times) : in.beat_times[k] = t]
         ELSE Frac(1, 2)
    ELSE RZero

StructuralPoints(in) ==
    LET all == UNION { {in.scenes[k][1], in.scenes[k][2]} : k \in 1..Len(in.scenes) }
    IN  RSorted({t \in all : RLe(RZero, t) /\ RLe(t, in.duration)})

TimingMode(in) ==
    IF in.beat_times # <<>> /\ RGe(in.beat_confidence, Frac(2, 5)) THEN "beat-driven"
    ELSE IF in.beat_times # <<>> /\ RGe(in.beat_confidence, Frac(3, 20)) THEN "beat-assisted"
    ELSE "structure-driven"

BeatGrid(in) ==
    IF in.beat_times # <<>>
    THEN RSorted({RZero, in.duration} \cup SeqToSet(in.beat_times))
    ELSE <<RZero, in.duration>>

\* min(candidates, key=|x - target|): the first of the nearest ones
NearestTime(target, candidates) ==
    IF candidates = <<>> THEN target
    ELSE LET dist(k) == RAbs(RSub(candidates[k], target))
             best == CHOOSE k \in 1..Len(candidates) :
                        /\ \A j \in 1..Len(candidates) : RLe(dist(k), dist(j))
                        /\ \A j \in 1..(k - 1) : RLt(dist(k), dist(j))
         IN  candidates[best]

SnapToBeat(in, time_value) ==
    IF BeatGrid(in) = <<>> THEN time_value ELSE NearestTime(time_value, BeatGrid(in))

EffectiveMax(in, n) ==
    RMax(MAX_DURATION, RMul(RDiv(in.duration, R(n)), Frac(13, 10)))

\* rhythm_score of an interval of beats_elapsed beats
RhythmScore(beats_elapsed) ==
    LET alignment ==
            RSub(ROne, RDiv(RAbs(RSub(beats_elapsed, R(RRound(beats_elapsed)))),
                            Frac(1, 2)))
        bonus == IF \/ RLt(RAbs(RSub(beats_elapsed, R(4))), Frac(1, 5))
                    \/ RLt(RAbs(RSub(beats_elapsed, R(8))), Frac(1, 5))
                 THEN Frac(3, 10)
                 ELSE IF RLt(RAbs(RSub(beats_elapsed, R(2))), Frac(1, 5))
                      THEN Frac(1, 10) ELSE RZero
    IN  RAdd(RMul(alignment, Frac(1, 5)), bonus)

\* the score of one window candidate t
BeatScore(in, start_time, ideal_end, t) ==
    LET Rhythm(beat_duration) ==
            IF RGt(beat_duration, RZero)
            THEN RhythmScore(RDiv(RSub(t, start_time), beat_duration)) ELSE RZero
        dist_score == RSub(ROne, RDiv(RAbs(RSub(t, ideal_end)), R(2)))
        rhythm_score ==
            Rhythm(IF RGt(in.bpm, R(20)) THEN RDiv(R(60), in.bpm) ELSE Frac(1, 2))
        WithStructuralBonus(score, sp) ==
            IF \E k \in 1..Len(sp) : RLt(RAbs(RSub(t, sp[k])), Frac(3, 20))
            THEN RAdd(score, Frac(2, 5)) ELSE score
    IN  WithStructuralBonus(
            RAdd(RAdd(RMul(Frac(3, 10), dist_score),
                      RMul(Frac(1, 2), GetStrength(in, t))),
                 RMul(Frac(1, 5), rhythm_score)),
            StructuralPoints(in))

\* "if score > best_score": the index of the first candidate of maximal score
FirstBest(scores) ==
    CHOOSE k \in 1..Len(scores) :
        /\ \A j \in 1..Len(scores) : RGe(scores[k], scores[j])
        /\ \A j \in 1..(k - 1) : RGt(scores[k], scores[j])

\* _select_smart_beat_end, once the candidates within [min_end, max_end] are known
SelectAmong(in, start_time, ideal_end, max_end, candidates) ==
    LET InWindow(c) == RLe(RAbs(RSub(c, ideal_end)), R(2))
        Pick(window_candidates) ==
            IF window_candidates = <<>> THEN NearestTime(ideal_end, candidates)
            ELSE window_candidates[
                    FirstBest([k \in 1..Len(window_candidates) |->
                        BeatScore(in, start_time, ideal_end, window_candidates[k])])]
    IN  IF candidates = <<>> THEN RMin(max_end, in.duration)
        ELSE Pick(SelectSeq(candidates, InWindow))

\* an end selection that takes ideal_end verbatim
SelectIdealEnd(in, start_time, ideal_end, remaining_segments) == ideal_end

SelectSmartBeatEnd(in, start_time, ideal_end, remaining_segments) ==
    LET Among(min_end, max_end) ==
            LET IsCandidate(b) == RGe(b, min_end) /\ RLe(b, max_end)
            IN  SelectAmong(in, start_time, ideal_end, max_end,
                            SelectSeq(BeatGrid(in), IsCandidate))
    IN  IF BeatGrid(in) = <<>> THEN ideal_end
        ELSE Among(RAdd(start_time, MIN_DURATION),
                   RMin(RAdd(start_time, MAX_DURATION),
                        RSub(in.duration, RMul(R(remaining_segments), MIN_DURATION))))

\* the running start time of an iteration: snapped to the grid in beat-driven mode
LoopStart(in, ct) ==
    IF TimingMode(in) = "beat-driven" /\ RGt(ct, RZero) THEN SnapToBeat(in, ct) ELSE ct

SegDuration(in, orig_dur, scale, n) ==
    RMax(MIN_DURATION, RMin(RMul(orig_dur, scale), EffectiveMax(in, n)))

\* ideal_end, with the nudge when the rest would average above effective_max
IdealEnd(in, ct, seg_duration, remaining, n) ==
    LET Nudged(ideal, rem_avg) ==
            IF RGt(rem_avg, EffectiveMax(in, n))
            THEN RAdd(ideal, RMul(RSub(rem_avg, EffectiveMax(in, n)), Frac(1, 2)))
            ELSE ideal
        From(ideal) ==
            IF remaining > 0
            THEN Nudged(ideal, RDiv(RSub(in.duration, ideal), R(remaining)))
            ELSE ideal
    IN  From(RAdd(ct, seg_duration))

\* final safety with the lower clamp only
FinalSafetyNoHeadroom(in, ct, actual_end, remaining) ==
    RMax(actual_end, RAdd(ct, MIN_DURATION))

\* the "Final safety" clamps of the loop
FinalSafety(in, ct, actual_end, remaining) ==
    RMin(RMax(actual_end, RAdd(ct, MIN_DURATION)),
         RSub(in.duration, RMul(R(remaining), MIN_DURATION)))

ActualEnd(in, ct, ideal_end, remaining) ==
    LET Assisted(beat_end) ==
            SnapToBeat(in, RAdd(RMul(Frac(1, 5), ideal_end), RMul(Frac(4, 5), beat_end)))
        Chosen(mode) ==
            IF mode = "beat-driven"
            THEN SelectSmartBeatEnd(in, ct, ideal_end, remaining)
            ELSE IF mode = "beat-assisted"
                 THEN Assisted(SelectSmartBeatEnd(in, ct, ideal_end, remaining))
                 ELSE RMin(ideal_end,
                           RSub(in.duration, RMul(R(remaining), MIN_DURATION)))
    IN  FinalSafety(in, ct, Chosen(TimingMode(in)), remaining)

\* a post-pass that leaves the list as the loop wrote it
GapsRemovalSkipped(segs, k) == segs

\* "Post-process: Gaps removal"
RECURSIVE GapsRemoval(_, _)
GapsRemoval(segs, k) ==
    IF k >= Len(segs) THEN segs
    ELSE GapsRemoval([segs EXCEPT ![k + 1].start_time = segs[k].end_time], k + 1)

NormInit ==
    /\ nz_pc = "call"
    /\ nz_in \in NormInputs
    /\ segments = SuggestedSegments(nz_in.sugg, RZero)
    /\ current_time = RZero
    /\ nz_i = 0
    /\ scale_factor = ROne
    /\ nz_trace = <<>>

\* first pass: _orig_duration of every segment and the scaling factor
NormalizeBegin ==
    /\ nz_pc = "call"
    /\ segments' = [k \in 1..Len(segments) |->
                        [segments[k] EXCEPT !.orig = OrigDuration(segments[k])]]
    /\ scale_factor' = ScaleFactor(nz_in, segments)
    /\ current_time' = RZero
    /\ nz_i' = 0
    /\ nz_pc' = "loop"
    /\ UNCHANGED <<nz_in, nz_trace>>
    /\ UNCHANGED notNorm

\* what one iteration resolves for segments[i] (0-based i) from the running
\* start time: the start used, ideal_end and the end written
LoopBody(in, segs, i, scale, running) ==
    LET n == Len(segs)
        Ended(ct, ideal_end) ==
            [start |-> ct, ideal_end |-> ideal_end,
             end |-> IF i = n - 1 THEN in.duration
                     ELSE ActualEnd(in, ct, ideal_end, n - i - 1)]
        Started(ct) ==
            Ended(ct, IdealEnd(in, ct, SegDuration(in, segs[i + 1].orig, scale, n),
                               n - i - 1, n))
    IN  Started(LoopStart(in, running))

\* one iteration of the normalization loop, for segments[nz_i]
NormalizeSegment ==
    /\ nz_pc = "loop"
    /\ nz_i < Len(segments)
    /\ \E res \in {LoopBody(nz_in, segments, nz_i, scale_factor, current_time)} :
         /\ segments' = [segments EXCEPT ![nz_i + 1] =
                             [start_time |-> res.start, end_time |-> res.end,
                              orig |-> RZero]]
         /\ current_time' = IF nz_i = Len(segments) - 1 THEN res.start ELSE res.end
         /\ nz_trace' = Append(nz_trace,
                               [start |-> res.start, ideal_end |-> res.ideal_end])
    /\ nz_i' = nz_i + 1
    /\ UNCHANGED <<nz_pc, nz_in, scale_factor>>
    /\ UNCHANGED notNorm

\* the post-pass and the return
NormalizeFinish ==
    /\ nz_pc = "loop"
    /\ nz_i = Len(segments)
    /\ segments' = GapsRemoval(segments, 1)
    /\ nz_pc' = "done"
    /\ UNCHANGED <<nz_in, current_time, nz_i, scale_factor, nz_trace>>
    /\ UNCHANGED notNorm


----------------------------------------------------------------------------
(* Timeline assembler: RenderService.render and _create_clips               *)

transition_duration == Frac(2, 5)

Effects == {"zoom_in", "zoom_out", "pan_left", "pan_right", "pan_up", "pan_down"}
\* the outcomes of the random transition choice: the five "beat" kinds or crossfade
RandomTransitions ==
    {"slide_left", "slide_right", "slide_up", "slide_down", "zoom_in", "crossfade"}

\* bounds of the checked projects
MaxPlainSegments == 3
MaxRenders == 2

\* a stored segment at timeline position k: two seconds long, or empty
SegmentAt(k, empty, effect, transition) ==
    [id |-> k,
     start_time |-> R(2 * (k - 1)),
     end_time |-> IF empty THEN R(2 * (k - 1)) ELSE R(2 * k),
     effect |-> effect,
     transition |-> transition]

\* segment shapes with concrete kinds: renderable, image missing, zero length,
\* no id (id 0 stands for a segment without "id" and "segment_id"), the image of
\* an older prompt version only, the images of both versions
PlainShapes == {"ok", "no_image", "empty", "no_id", "stale_image", "regenerated"}
\* segment shapes with kinds left to the renderer ("" is an absent effect)
OpenShapes == {"random", "absent_effect", "random_no_image"}

ShapeSegment(k, shape) ==
    CASE shape = "ok" -> SegmentAt(k, FALSE, "pan_left", "cut")
      [] shape = "no_image" -> SegmentAt(k, FALSE, "zoom_out", "slide_up")
      [] shape = "empty" -> SegmentAt(k, TRUE, "pan_up", "crossfade")
      [] shape = "random" -> SegmentAt(k, FALSE, "random", "random")
      [] shape = "absent_effect" -> SegmentAt(k, FALSE, "", "crossfade")
      [] shape = "random_no_image" -> SegmentAt(k, FALSE, "random", "random")
      [] shape = "no_id" -> [SegmentAt(k, FALSE, "zoom_in", "slide_left") EXCEPT !.id = 0]
      [] shape = "stale_image" -> SegmentAt(k, FALSE, "pan_down", "cut")
      [] shape = "regenerated" -> SegmentAt(k, FALSE, "pan_right", "zoom_in")

\* the image files of the segment at position k, and its prompt version
ShapeImages(k, shape) ==
    CASE shape \in {"no_image", "random_no_image"} -> {}
      [] shape = "regenerated" -> {<<k, 1>>, <<k, 2>>}
      [] OTHER -> {<<k, 1>>}
ShapeVersion(shape) == IF shape \in {"stale_image", "regenerated"} THEN 2 ELSE 1

\* the projects checked: up to MaxPlainSegments segments of concrete kinds, and
\* one or two segments with kinds left open
ProjectShapes ==
    UNION { [1..n -> PlainShapes] : n \in 1..MaxPlainSegments }
    \cup UNION { [1..n -> OpenShapes \cup {"ok"}] : n \in 1..2 }

NoVideo == [starts |-> <<>>, duration |-> RZero]
NoSnapshot == [segments |-> <<>>, renders |-> <<>>]

StoreInit ==
    /\ \E shapes \in ProjectShapes :
          /\ stored_segments = [k \in 1..Len(shapes) |-> ShapeSegment(k, shapes[k])]
          /\ images = UNION { ShapeImages(k, shapes[k]) : k \in 1..Len(shapes) }
          /\ prompts = [k \in 1..Len(shapes) |-> ShapeVersion(shapes[k])]
    /\ audio_present \in BOOLEAN
    /\ renders = <<>>

RenderIdle ==
    /\ r_pc = "idle"
    /\ r_segments = <<>>
    /\ r_i = 0
    /\ r_clips = <<>>
    /\ r_video = NoVideo
    /\ r_output = 0
    /\ r_before = NoSnapshot
    /\ r_count = 0
    /\ rendered = <<>>

\* seg.get("effect") or "random"
EffectOf(seg) == IF seg.effect = "" THEN "random" ELSE seg.effect

\* a loop that builds a clip from every segment that has an id and an image
RenderableAnyLength(seg, k) ==
    /\ seg.id # 0
    /\ <<seg.id, prompts[seg.id]>> \in images

\* the segment is turned into a clip: it has an id, the image of its prompt
\* version exists and its length is positive
Renderable(seg, k) ==
    /\ seg.id # 0
    /\ <<seg.id, prompts[seg.id]>> \in images
    /\ RGt(RSub(seg.end_time, seg.start_time), RZero)

\* generated clip length: the segment's, plus the overlap unless segment k is the
\* last of the list ("if i < len(segments) - 1")
ClipDuration(segs, k) ==
    LET duration == RSub(segs[k].end_time, segs[k].start_time)
    IN  IF k < Len(segs) THEN RAdd(duration, transition_duration) ELSE duration

\* a transition is applied to every segment but the first of the list ("if i > 0")
TransitionApplies(k) == k > 1

\* moviepy's concatenate_videoclips(clips, method="compose", padding=p): with
\* tt = cumsum([0] + durations) + p * arange, floored at 0, clip k starts at
\* tt[k] and the result lasts tt[-1]
ConcatTime(clips, m, padding) ==
    RMax(RZero, RAdd(RSum([j \in 1..m |-> clips[j].duration]), RMul(R(m), padding)))

Concatenate(clips, padding) ==
    [starts |-> [j \in 1..Len(clips) |-> ConcatTime(clips, j - 1, padding)],
     duration |-> ConcatTime(clips, Len(clips), padding)]

\* get_next_render_path: one more than the number of final_v*.mp4 files
NextRenderVersion == Cardinality(DOMAIN renders) + 1

\* render(): the audio track is missing, FileNotFoundError before anything is read
RenderMissingAudio ==
    /\ r_pc = "idle"
    /\ r_count < MaxRenders
    /\ ~audio_present
    /\ r_before' = [segments |-> stored_segments, renders |-> renders]
    /\ r_count' = r_count + 1
    /\ r_pc' = "failed"
    /\ UNCHANGED <<r_segments, r_i, r_clips, r_video, r_output, rendered, storeVars>>
    /\ UNCHANGED notRender

\* render(): load the segments and enter _create_clips
RenderLoad ==
    /\ r_pc = "idle"
    /\ r_count < MaxRenders
    /\ audio_present
    /\ r_before' = [segments |-> stored_segments, renders |-> renders]
    /\ r_count' = r_count + 1
    /\ r_segments' = stored_segments
    /\ r_i' = 1
    /\ r_clips' = <<>>
    /\ r_video' = NoVideo
    /\ r_output' = 0
    /\ r_pc' = "clips"
    /\ UNCHANGED <<rendered, storeVars>>
    /\ UNCHANGED notRender

\* _create_clips: a loop iteration that skips its segment
SkipSegment ==
    /\ r_pc = "clips"
    /\ r_i <= Len(r_segments)
    /\ ~Renderable(r_segments[r_i], r_i)
    /\ r_i' = r_i + 1
    /\ UNCHANGED <<r_pc, r_segments, r_clips, r_video, r_output, r_before, r_count,
                   rendered, storeVars>>
    /\ UNCHANGED notRender

\* the kinds a clip is built with: the segment's own, or the drawn ones where the
\* segment says "random"
ClipEffect(seg, drawn) == IF EffectOf(seg) = "random" THEN drawn ELSE seg.effect
ClipTransition(seg, k, drawn) ==
    IF ~TransitionApplies(k) THEN "none"
    ELSE IF seg.transition = "random" THEN drawn ELSE seg.transition

\* a loop iteration that keeps the drawn kinds to itself
WriteBackDropped(seg, k, effect, transition) == seg

\* "Save the used effect / transition back to the segment"
WriteBack(seg, k, effect, transition) ==
    LET seg1 == IF EffectOf(seg) = "random" THEN [seg EXCEPT !.effect = effect] ELSE seg
    IN  IF TransitionApplies(k) /\ seg.transition = "random"
        THEN [seg1 EXCEPT !.transition = transition] ELSE seg1

\* _create_clips: a loop iteration that builds the clip of its segment, resolving
\* "random" kinds and writing them back onto the loaded segment
CreateClip ==
    /\ r_pc = "clips"
    /\ r_i <= Len(r_segments)
    /\ Renderable(r_segments[r_i], r_i)
    /\ \E effect \in Effects, transition \in RandomTransitions :
         LET seg == r_segments[r_i]
             eff == ClipEffect(seg, effect)
             tr == ClipTransition(seg, r_i, transition)
         IN  /\ r_segments' = [r_segments EXCEPT ![r_i] = WriteBack(seg, r_i, eff, tr)]
             /\ r_clips' = Append(r_clips,
                    [seg |-> r_i, duration |-> ClipDuration(r_segments, r_i),
                     effect |-> eff, transition |-> tr])
    /\ r_i' = r_i + 1
    /\ UNCHANGED <<r_pc, r_video, r_output, r_before, r_count, rendered, storeVars>>
    /\ UNCHANGED notRender

\* _create_clips: the image of a renderable segment cannot be opened or
\* processed; the exception leaves _create_clips and render
ApplyEffectFails ==
    /\ r_pc = "clips"
    /\ r_i <= Len(r_segments)
    /\ Renderable(r_segments[r_i], r_i)
    /\ r_pc' = "failed"
    /\ UNCHANGED <<r_segments, r_i, r_clips, r_video, r_output, r_before, r_count,
                   rendered, storeVars>>
    /\ UNCHANGED notRender

\* _create_clips: no clip was built, ValueError
NoValidSegments ==
    /\ r_pc = "clips"
    /\ r_i > Len(r_segments)
    /\ r_clips = <<>>
    /\ r_pc' = "failed"
    /\ UNCHANGED <<r_segments, r_i, r_clips, r_video, r_output, r_before, r_count,
                   rendered, storeVars>>
    /\ UNCHANGED notRender

\* _create_clips: concatenate the clips and return the video
ConcatenateClips ==
    /\ r_pc = "clips"
    /\ r_i > Len(r_segments)
    /\ r_clips # <<>>
    /\ r_video' = Concatenate(r_clips, RNeg(transition_duration))
    /\ r_pc' = "save"
    /\ UNCHANGED <<r_segments, r_i, r_clips, r_output, r_before, r_count,
                   rendered, storeVars>>
    /\ UNCHANGED notRender

\* render(): project_repo.save_segments, right after _create_clips returned
SaveSegments ==
    /\ r_pc = "save"
    /\ stored_segments' = r_segments
    /\ rendered' = [k \in 1..Len(r_segments) |->
                      (IF k \in DOMAIN rendered THEN rendered[k] ELSE {})
                      \cup { <<r_clips[j].effect, r_clips[j].transition>> :
                                j \in {j \in 1..Len(r_clips) : r_clips[j].seg = k} }]
    /\ r_pc' = "subs"
    /\ UNCHANGED <<images, prompts, audio_present, renders, r_segments, r_i, r_clips, r_video,
                   r_output, r_before, r_count>>
    /\ UNCHANGED notRender

\* render(): the subtitle overlay is composited (or there is none)
AddSubtitles ==
    /\ r_pc = "subs"
    /\ r_pc' = "path"
    /\ UNCHANGED <<r_segments, r_i, r_clips, r_video, r_output, r_before, r_count,
                   rendered, storeVars>>
    /\ UNCHANGED notRender

\* render(): _add_subtitles raises
AddSubtitlesFails ==
    /\ r_pc = "subs"
    /\ r_pc' = "failed"
    /\ UNCHANGED <<r_segments, r_i, r_clips, r_video, r_output, r_before, r_count,
                   rendered, storeVars>>
    /\ UNCHANGED notRender

\* render(): get_next_render_path
NextRenderPath ==
    /\ r_pc = "path"
    /\ r_output' = NextRenderVersion
    /\ r_pc' = "write"
    /\ UNCHANGED <<r_segments, r_i, r_clips, r_video, r_before, r_count,
                   rendered, storeVars>>
    /\ UNCHANGED notRender

\* the file an aborted encode leaves at the output path
AbortedOutput(n) == (n :> "partial") @@ renders

\* render(): write_videofile runs to the end and render returns
WriteVideofile ==
    /\ r_pc = "write"
    /\ renders' = (r_output :> "complete") @@ renders
    /\ r_pc' = "done"
    /\ UNCHANGED <<stored_segments, images, prompts, audio_present, r_segments, r_i,
                   r_clips,
                   r_video, r_output, r_before, r_count, rendered>>
    /\ UNCHANGED notRender

\* render(): write_videofile raises in the middle of the encode; the finally
\* block closes the clips and nothing removes the output file
WriteVideofileFails ==
    /\ r_pc = "write"
    /\ renders' = AbortedOutput(r_output)
    /\ r_pc' = "failed"
    /\ UNCHANGED <<stored_segments, images, prompts, audio_present, r_segments, r_i,
                   r_clips,
                   r_video, r_output, r_before, r_count, rendered>>
    /\ UNCHANGED notRender

\* the invocation is over; the project can be rendered again
RenderReturn ==
    /\ r_pc \in {"done", "failed"}
    /\ r_pc' = "idle"
    /\ UNCHANGED <<r_segments, r_i, r_clips, r_video, r_output, r_before, r_count,
                   rendered, storeVars>>
    /\ UNCHANGED notRender

NextRender ==
    \/ RenderMissingAudio \/ RenderLoad
    \/ SkipSegment \/ CreateClip \/ ApplyEffectFails \/ NoValidSegments \/ ConcatenateClips
    \/ SaveSegments
    \/ AddSubtitles \/ AddSubtitlesFails
    \/ NextRenderPath
    \/ WriteVideofile \/ WriteVideofileFails
    \/ RenderReturn

----------------------------------------------------------------------------
(* Motion effect generator: RenderService._apply_effect and its make_frame  *)

\* bound of the checked inputs: the small image and target sides
MaxSmallSide == 3

\* (orig_w, orig_h) of the source image
ImageSizes ==
    ((1..MaxSmallSide) \X (1..MaxSmallSide))
        \cup {<<11, 11>>, <<1024, 1024>>, <<1920, 1080>>, <<500, 4000>>}
\* target_size (tw, th)
TargetSizes ==
    ((1..MaxSmallSide) \X (1..MaxSmallSide)) \cup {<<720, 1280>>, <<1280, 720>>}
\* values of random.uniform(0.75, 0.88)
ZoomLevels == {Frac(3, 4), Frac(4, 5), Frac(22, 25)}
\* t / duration of the frames asked for, t in [0, duration]
LinearProgress == {R(0), Frac(1, 3), Frac(1, 2), Frac(2, 3), R(1)}

\* p = 0.5 * (1 - cos(linear_p * pi)), at the points where the cosine is rational
Ease(linear_p) ==
    LET cos == CASE linear_p = R(0) -> R(1)
                 [] linear_p = Frac(1, 3) -> Frac(1, 2)
                 [] linear_p = Frac(1, 2) -> R(0)
                 [] linear_p = Frac(2, 3) -> Frac(-1, 2)
                 [] linear_p = R(1) -> R(-1)
    IN  RMul(Frac(1, 2), RSub(ROne, cos))

RECURSIVE IsPow2(_)
IsPow2(d) == d = 1 \/ (d % 2 = 0 /\ IsPow2(d \div 2))

\* int(a * f) for an integer a and a float quotient f: the exact value truncated;
\* when the exact product is an integer and f has no finite binary expansion,
\* the rounded product can also fall just below it (11 * (1920.0 / 11) is
\* 1919.9999999999998)
IntOfProduct(a, f) ==
    LET Outcomes(exact) ==
            IF exact[2] = 1 /\ ~IsPow2(f[2]) THEN {exact[1] - 1, exact[1]}
            ELSE {RTrunc(exact)}
    IN  Outcomes(RMul(R(a), f))

\* scale_factor of the upscaling: the source must reach 1.5 x the target
UpscaleFactor(in) ==
    RMax(RMax(RDiv(RMul(R(in.tw), Frac(3, 2)), R(in.orig_w)),
              RDiv(RMul(R(in.th), Frac(3, 2)), R(in.orig_h))),
         ROne)

\* the sizes pil_img can have after the upscaling
UpscaledSizes(in) ==
    LET Sizes(f) ==
            IF RGt(f, ROne)
            THEN IntOfProduct(in.orig_w, f) \X IntOfProduct(in.orig_h, f)
            ELSE {<<in.orig_w, in.orig_h>>}
    IN  Sizes(UpscaleFactor(in))

\* the largest crop of the target's aspect ratio (cover mode), and the pan room
SourceImage(w, h, tw, th) ==
    LET Cover(max_crop_w, max_crop_h) ==
            [w |-> w, h |-> h, max_crop_w |-> max_crop_w, max_crop_h |-> max_crop_h,
             has_pan_room_x |-> RGt(R(w), RMul(max_crop_w, Frac(21, 20))),
             has_pan_room_y |-> RGt(R(h), RMul(max_crop_h, Frac(21, 20)))]
    IN  IF RGt(Frac(w, h), Frac(tw, th))
        THEN Cover(RMul(R(h), Frac(tw, th)), R(h))
        ELSE Cover(R(w), RMul(R(w), Frac(th, tw)))

\* scale of the crop at eased progress p
MotionScale(in, img, p) ==
    CASE in.effect = "zoom_in" ->
            RSub(ROne, RMul(RSub(ROne, in.zoom_level), p))
      [] in.effect = "zoom_out" ->
            RAdd(in.zoom_level, RMul(RSub(ROne, in.zoom_level), p))
      [] in.effect \in {"pan_left", "pan_right"} ->
            IF img.has_pan_room_x THEN ROne ELSE in.zoom_level
      [] in.effect \in {"pan_up", "pan_down"} ->
            IF img.has_pan_room_y THEN ROne ELSE in.zoom_level

\* the centre along one axis of a pan over an image side of length extent with a
\* crop of length crop: from max to min (pan_left, pan_up) or from min to max
PanCentre(extent, crop, p, from_max) ==
    LET Between(min_c, max_c) ==
            IF RLt(min_c, max_c)
            THEN IF from_max THEN RSub(max_c, RMul(RSub(max_c, min_c), p))
                 ELSE RAdd(min_c, RMul(RSub(max_c, min_c), p))
            ELSE RDiv(R(extent), R(2))
    IN  Between(RDiv(crop, R(2)), RSub(R(extent), RDiv(crop, R(2))))

\* x1, x2 (or y1, y2) of the crop of length final around centre c: the int()
\* conversions, the shift into the image and the final safety clamp
CropSpan(c, final, extent) ==
    LET Spanning(a1) == <<a1, RTrunc(RAdd(R(a1), final))>>
        ShiftLow(s) == IF s[1] < 0 THEN <<0, s[2] - s[1]>> ELSE s
        ShiftHigh(s) == IF s[2] > extent THEN <<s[1] - (s[2] - extent), extent>> ELSE s
        Clamp(s) == <<IF s[1] < 0 THEN 0 ELSE s[1], IF s[2] > extent THEN extent ELSE s[2]>>
    IN  Clamp(ShiftHigh(ShiftLow(Spanning(RTrunc(RSub(c, RDiv(final, R(2))))))))

\* "Ultimate fallback: center crop at max size", along one axis
CentreSpan(extent, max_crop) ==
    LET Spanning(a1, c) == <<a1, RTrunc(RAdd(R(a1), c))>>
        Centred(c) == Spanning(RTrunc(RDiv(RSub(R(extent), c), R(2))), c)
    IN  Centred(RMin(R(extent), max_crop))

\* "Ensure we have valid crop dimensions"
ValidCrop(xs, ys, img) ==
    IF xs[2] <= xs[1] \/ ys[2] <= ys[1]
    THEN [xs |-> CentreSpan(img.w, img.max_crop_w),
          ys |-> CentreSpan(img.h, img.max_crop_h), fallback |-> TRUE]
    ELSE [xs |-> xs, ys |-> ys, fallback |-> FALSE]

\* "Safety check for empty array": a centre crop of the whole pixels of the
\* cover rectangle replaces an empty part
NonEmptyPart(crop, img) ==
    LET Centred(cw_fb, ch_fb) ==
            [xs |-> <<(img.w - cw_fb) \div 2, (img.w - cw_fb) \div 2 + cw_fb>>,
             ys |-> <<(img.h - ch_fb) \div 2, (img.h - ch_fb) \div 2 + ch_fb>>,
             fallback |-> TRUE]
        Least(a, b) == IF a < b THEN a ELSE b
    IN  IF crop.xs[2] > crop.xs[1] /\ crop.ys[2] > crop.ys[1]
        THEN crop
        ELSE Centred(Least(img.w, RTrunc(img.max_crop_w)),
                     Least(img.h, RTrunc(img.max_crop_h)))

\* a make_frame that crops with whatever rectangle the clamps left
CropUnchecked(xs, ys, img) == [xs |-> xs, ys |-> ys, fallback |-> FALSE]

\* the part that is resized: the computed crop after the two checks
CropUsed(xs, ys, img) == NonEmptyPart(ValidCrop(xs, ys, img), img)

\* the frame make_frame returns at eased progress p: the crop rectangle used and
\* the size of the returned array (an empty part cannot be resized)
MakeFrameAt(in, img, p) ==
    LET Resized(crop) ==
            [x1 |-> crop.xs[1], x2 |-> crop.xs[2], y1 |-> crop.ys[1], y2 |-> crop.ys[2],
             fallback |-> crop.fallback,
             size |-> IF crop.xs[2] > crop.xs[1] /\ crop.ys[2] > crop.ys[1]
                      THEN <<in.tw, in.th>> ELSE <<0, 0>>]
        Cropped(scale) ==
            LET final_w == RMax(RMul(img.max_crop_w, scale), RDiv(R(in.tw), R(2)))
                final_h == RMax(RMul(img.max_crop_h, scale), RDiv(R(in.th), R(2)))
                cx == IF in.effect \in {"pan_left", "pan_right"}
                      THEN PanCentre(img.w, RMul(img.max_crop_w, scale), p,
                                     in.effect = "pan_left")
                      ELSE RDiv(R(img.w), R(2))
                cy == IF in.effect \in {"pan_up", "pan_down"}
                      THEN PanCentre(img.h, RMul(img.max_crop_h, scale), p,
                                     in.effect = "pan_up")
                      ELSE RDiv(R(img.h), R(2))
            IN  Resized(CropUsed(CropSpan(cx, final_w, img.w),
                                 CropSpan(cy, final_h, img.h), img))
    IN  Cropped(MotionScale(in, img, p))

NoImage == [w |-> 0, h |-> 0]
NoFrame == [size |-> <<>>]

CropIdle ==
    /\ fx_pc = "idle"
    /\ fx_in = <<>>
    /\ fx_img = NoImage
    /\ fx_frame = NoFrame

CropInit ==
    /\ fx_pc = "call"
    /\ fx_in \in { [orig_w |-> sz[1], orig_h |-> sz[2], tw |-> t[1], th |-> t[2],
                     effect |-> e, zoom_level |-> z] :
                        sz \in ImageSizes, t \in TargetSizes, e \in Effects,
                        z \in ZoomLevels }
    /\ fx_img = NoImage
    /\ fx_frame = NoFrame

\* _apply_effect up to the return of the clip: open, upscale, cover crop
ApplyEffect ==
    /\ fx_pc = "call"
    /\ \E sz \in UpscaledSizes(fx_in) :
         fx_img' = SourceImage(sz[1], sz[2], fx_in.tw, fx_in.th)
    /\ fx_pc' = "ready"
    /\ UNCHANGED <<fx_in, fx_frame>>
    /\ UNCHANGED notCrop

\* the clip is asked for the frame at a time t in [0, duration]
MakeFrame ==
    /\ fx_pc = "ready"
    /\ \E linear_p \in LinearProgress :
         fx_frame' = MakeFrameAt(fx_in, fx_img, Ease(linear_p))
    /\ UNCHANGED <<fx_pc, fx_in, fx_img>>
    /\ UNCHANGED notCrop

----------------------------------------------------------------------------
(* Subtitle layout and karaoke rendering: _layout_text, _render_layout      *)

\* bound of the checked inputs: words in a one-line cue
MaxWords == 3

\* a word of the cue: its measured width and whether it is inside <h>..</h>
Words == { [width |-> 2, hl |-> FALSE], [width |-> 5, hl |-> FALSE],
           [width |-> 3, hl |-> TRUE] }

\* cue texts: the explicit lines (split at "\n"), each a list of words
CueTexts ==
    { <<ln>> : ln \in UNION { [1..n -> Words] : n \in 0..MaxWords } }
        \cup { <<<<a>>, <<b>>>> : a \in Words, b \in Words }

\* (start_seconds, end_seconds) of the cue; the last one has no duration
CueTimes == {<<R(0), R(1)>>, <<Frac(1, 2), R(2)>>, <<R(1), R(1)>>}

\* the cue with the font metrics and the styling that reach the layout
LayoutInputs ==
    { [text |-> tx, max_width |-> mw, align |-> al, hl_padding |-> pad,
       hl_active_word |-> ka, stroke_width |-> sw, space_w |-> 1, text_height |-> 4,
       start_time |-> tm[1], end_time |-> tm[2]] :
        tx \in CueTexts, mw \in {4, 8, 14}, al \in {"left", "center", "right"},
        pad \in {0, 2}, ka \in BOOLEAN, sw \in {0, 1}, tm \in CueTimes }

RECURSIVE Sum(_)
Sum(s) == IF s = <<>> THEN 0 ELSE Head(s) + Sum(Tail(s))

RECURSIVE Flatten(_)
Flatten(ss) == IF ss = <<>> THEN <<>> ELSE Head(ss) \o Flatten(Tail(ss))

\* the token dict of a word: padding if highlighted or in karaoke mode (pad_all)
Token(word, in) ==
    LET Padded(padding) ==
            [width |-> word.width, hl |-> word.hl, padding |-> padding,
             total_width |-> word.width + padding * 2]
    IN  Padded(IF word.hl \/ in.hl_active_word THEN in.hl_padding ELSE 0)

\* a wrapping that breaks the line already when the token fills it exactly
RECURSIVE WrapTokensStrict(_, _, _, _, _)
WrapTokensStrict(tokens, lines, current_line, current_w, in) ==
    IF tokens = <<>>
    THEN IF current_line # <<>> THEN Append(lines, current_line) ELSE lines
    ELSE IF current_w + Head(tokens).total_width < in.max_width
         THEN WrapTokensStrict(Tail(tokens), lines, Append(current_line, Head(tokens)),
                               current_w + Head(tokens).total_width + in.space_w, in)
         ELSE IF current_line # <<>>
              THEN WrapTokensStrict(Tail(tokens), Append(lines, current_line),
                                    <<Head(tokens)>>,
                                    Head(tokens).total_width + in.space_w, in)
              ELSE WrapTokensStrict(Tail(tokens), Append(lines, <<Head(tokens)>>),
                                    <<>>, 0, in)

\* "Line wrapping" of the tokens of one explicit line, appending to lines
RECURSIVE WrapTokens(_, _, _, _, _)
WrapTokens(tokens, lines, current_line, current_w, in) ==
    IF tokens = <<>>
    THEN IF current_line # <<>> THEN Append(lines, current_line) ELSE lines
    ELSE IF current_w + Head(tokens).total_width <= in.max_width
         THEN WrapTokens(Tail(tokens), lines, Append(current_line, Head(tokens)),
                         current_w + Head(tokens).total_width + in.space_w, in)
         ELSE IF current_line # <<>>
              THEN WrapTokens(Tail(tokens), Append(lines, current_line),
                              <<Head(tokens)>>,
                              Head(tokens).total_width + in.space_w, in)
              ELSE WrapTokens(Tail(tokens), Append(lines, <<Head(tokens)>>),
                              <<>>, 0, in)

RECURSIVE WrapText(_, _, _)
WrapText(text, lines, in) ==
    IF text = <<>> THEN lines
    ELSE WrapText(Tail(text),
                  WrapTokens([k \in 1..Len(Head(text)) |-> Token(Head(text)[k], in)],
                             lines, <<>>, 0, in),
                  in)

\* the x at which a line of width lw starts
AlignX(in, lw) ==
    CASE in.align = "center" -> Frac(in.max_width - lw, 2)
      [] in.align = "right" -> R(in.max_width - lw - 10)
      [] OTHER -> R(10)

\* "Assign final positions" for line number li (from 1) of the wrapped lines
PositionedLine(line, li, in, step_y) ==
    LET Place(t, x, y) ==
            [width |-> t.width, hl |-> t.hl, padding |-> t.padding,
             total_width |-> t.total_width, line |-> li,
             x |-> RTrunc(RAdd(x, R(t.padding))), y |-> y,
             box |-> <<RTrunc(x), y - t.padding, RTrunc(RAdd(x, R(t.total_width))),
                       y + in.text_height + t.padding>>]
        Widths(n) == [i \in 1..n |-> line[i].total_width + in.space_w]
        From(x0, y) ==
            [j \in 1..Len(line) |-> Place(line[j], RAdd(x0, R(Sum(Widths(j - 1)))), y)]
    IN  From(AlignX(in, Sum(Widths(Len(line))) - in.space_w),
             10 + in.hl_padding + (li - 1) * step_y)

\* _layout_text
LayoutText(in) ==
    LET Max(a, b) == IF a >= b THEN a ELSE b
        Laid(lines, step_y) ==
            [lines |-> [li \in 1..Len(lines) |-> PositionedLine(lines[li], li, in, step_y)],
             w |-> in.max_width,
             h |-> Len(lines) * step_y + 20,
             text_height |-> in.text_height]
    IN  Laid(WrapText(in.text, <<>>, in),
             Max(in.text_height + 20, in.text_height + in.hl_padding * 2 + 10))

\* a renderer that draws the active word moved outwards by its padding
DrawTokenShifted(t, is_active, stroke_width) ==
    [line |-> t.line, slot |-> t.total_width, box |-> t.box,
     at |-> IF is_active THEN <<t.x - t.padding, t.y>> ELSE <<t.x, t.y>>,
     boxed |-> is_active \/ t.hl,
     fill |-> IF is_active \/ t.hl THEN "hl_text_color" ELSE "text_color",
     stroke |-> stroke_width > 0 /\ ~is_active]

\* what _render_layout draws for one token: the highlight box if the word is
\* active or tagged, the stroke unless it is active, the text at (x, y)
DrawToken(t, is_active, stroke_width) ==
    [line |-> t.line, slot |-> t.total_width, box |-> t.box,
     at |-> <<t.x, t.y>>,
     boxed |-> is_active \/ t.hl,
     fill |-> IF is_active \/ t.hl THEN "hl_text_color" ELSE "text_color",
     stroke |-> stroke_width > 0 /\ ~is_active]

NoActiveWord == -1

\* _render_layout: the image of the layout with word active_word_index (0-based,
\* or none) highlighted
RenderLayout(layout, in, active_word_index) ==
    LET Drawn(tokens) ==
            [size |-> <<layout.w, layout.h>>, active |-> active_word_index,
             draws |-> [n \in 1..Len(tokens) |->
                          DrawToken(tokens[n],
                                    active_word_index # NoActiveWord
                                        /\ n - 1 = active_word_index,
                                    in.stroke_width)]]
    IN  Drawn(Flatten(layout.lines))

NoLayout == [lines |-> <<>>, w |-> 0, h |-> 0, text_height |-> 0]

LayoutIdle ==
    /\ kl_pc = "idle"
    /\ kl_in = <<>>
    /\ kl_layout = NoLayout
    /\ kl_i = 0
    /\ kl_start = RZero
    /\ kl_frames = <<>>

LayoutInit ==
    /\ kl_pc = "cue"
    /\ kl_in \in LayoutInputs
    /\ kl_layout = NoLayout
    /\ kl_i = 0
    /\ kl_start = RZero
    /\ kl_frames = <<>>

WordCount(layout) == Len(Flatten(layout.lines))

CueDuration(in) == RSub(in.end_time, in.start_time)

\* a karaoke loop that shows every word for the whole cue
WordDurationWholeCue(duration, word_count) == duration

\* word_duration = duration / word_count
WordDuration(duration, word_count) == RDiv(duration, R(word_count))

\* the text clip handed to _position_and_add_clip: the image, set_start and
\* set_duration
TextClip(image, start_time, duration) ==
    [size |-> image.size, active |-> image.active, draws |-> image.draws,
     start |-> start_time, duration |-> duration]

\* "if duration <= 0: continue"
SkipEmptyCue ==
    /\ kl_pc = "cue"
    /\ RLe(CueDuration(kl_in), RZero)
    /\ kl_pc' = "done"
    /\ UNCHANGED <<kl_in, kl_layout, kl_i, kl_start, kl_frames>>
    /\ UNCHANGED notLayout

\* "1. Compute Layout ONCE"; in karaoke mode with words, also the set-up of the
\* word loop
ComputeLayout ==
    /\ kl_pc = "cue"
    /\ RGt(CueDuration(kl_in), RZero)
    /\ kl_layout' = LayoutText(kl_in)
    /\ kl_start' = kl_in.start_time
    /\ kl_pc' = "laid"
    /\ UNCHANGED <<kl_in, kl_i, kl_frames>>
    /\ UNCHANGED notLayout

\* karaoke mode, a cue without words: continue
SkipCue ==
    /\ kl_pc = "laid"
    /\ kl_in.hl_active_word
    /\ WordCount(kl_layout) = 0
    /\ kl_pc' = "done"
    /\ UNCHANGED <<kl_in, kl_layout, kl_i, kl_start, kl_frames>>
    /\ UNCHANGED notLayout

\* karaoke mode: one iteration of "for i in range(word_count)"
RenderWord ==
    /\ kl_pc = "laid"
    /\ kl_in.hl_active_word
    /\ kl_i < WordCount(kl_layout)
    /\ \E word_duration \in {WordDuration(CueDuration(kl_in), WordCount(kl_layout))} :
          /\ kl_frames' = Append(kl_frames,
                                 TextClip(RenderLayout(kl_layout, kl_in, kl_i),
                                          kl_start, word_duration))
          /\ kl_start' = RAdd(kl_start, word_duration)
    /\ kl_i' = kl_i + 1
    /\ kl_pc' = IF kl_i + 1 = WordCount(kl_layout) THEN "done" ELSE "laid"
    /\ UNCHANGED <<kl_in, kl_layout>>
    /\ UNCHANGED notLayout

\* "Standard render (no active word)"
RenderStandard ==
    /\ kl_pc = "laid"
    /\ ~kl_in.hl_active_word
    /\ kl_frames' = Append(kl_frames,
                           TextClip(RenderLayout(kl_layout, kl_in, NoActiveWord),
                                    kl_in.start_time, CueDuration(kl_in)))
    /\ kl_pc' = "done"
    /\ UNCHANGED <<kl_in, kl_layout, kl_i, kl_start>>
    /\ UNCHANGED notLayout

----------------------------------------------------------------------------
(* SRT time utilities: srt_time_to_seconds and seconds_to_srt_time           *)
(*                                                                          *)
(* Here the binary rounding of the floats decides the digits, so a float is *)
(* modelled exactly: a non-negative binary64 value is [int, frac], its      *)
(* integer part and the bits of its fraction (frac[k] has weight 2^-k), and *)
(* every inexact operation rounds to 53 significant bits, to nearest, ties  *)
(* to even. The values met here are 0 or lie in [2^-10, 2^20), so FracBits  *)
(* fraction bits hold every one of them and every exact product below.      *)

Mantissa == 53
FracBits == 64

\* bound of the checked inputs
MaxHours == 1

\* the times checked, as the digits HH:MM:SS,mmm
SrtTimes ==
    { [h |-> h, m |-> m, s |-> sec, ms |-> ms] :
        h \in 0..MaxHours, m \in {0, 1, 59}, sec \in {0, 1, 5, 23, 59},
        ms \in {0, 1, 2, 123, 400, 500, 999} }

RECURSIVE Pow2Mod(_, _)
Pow2Mod(k, m) == IF k = 0 THEN 1 % m ELSE (2 * Pow2Mod(k - 1, m)) % m

\* round(x) to binary64, where sticky says that x exceeds the bits given
Round53(x, sticky) ==
    LET Bit(k) == x.frac[k]
        Increment(K) ==
            IF \A k \in 1..K : Bit(k) = 1
            THEN [int |-> x.int + 1, frac |-> [k \in 1..FracBits |-> 0]]
            ELSE LET Carry(z) ==
                        [int |-> x.int,
                         frac |-> [k \in 1..FracBits |->
                                     IF k < z THEN Bit(k) ELSE IF k = z THEN 1 ELSE 0]]
                 IN  Carry(CHOOSE z \in 1..K :
                              Bit(z) = 0 /\ \A k \in (z + 1)..K : Bit(k) = 1)
        \* K: the last fraction bit that fits the mantissa
        RoundAt(K) ==
            IF K >= FracBits THEN x
            ELSE IF Bit(K + 1) = 1
                    /\ (sticky \/ Bit(K) = 1 \/ \E k \in (K + 2)..FracBits : Bit(k) = 1)
            THEN Increment(K)
            ELSE [int |-> x.int, frac |-> [k \in 1..FracBits |->
                                              IF k <= K THEN Bit(k) ELSE 0]]
    IN  IF x.int > 0
        THEN RoundAt(Mantissa - (CHOOSE l \in 1..31 : x.int < 2^l /\ x.int >= 2^(l - 1)))
        ELSE IF \E k \in 1..FracBits : Bit(k) = 1
             THEN RoundAt((CHOOSE z \in 1..FracBits :
                              Bit(z) = 1 /\ \A k \in 1..(z - 1) : Bit(k) = 0)
                          + Mantissa - 1)
             ELSE x

\* float("S.mmm"), also the float literal of a time of ms milliseconds: the
\* binary64 value nearest to ms / 1000
DecimalToFloat(ms) ==
    LET Quotient(r) ==
            [int |-> ms \div 1000,
             frac |-> [k \in 1..FracBits |->
                         IF (r * Pow2Mod(k, 2000)) % 2000 >= 1000 THEN 1 ELSE 0]]
    IN  Round53(Quotient(ms % 1000), ((ms % 1000) * Pow2Mod(FracBits, 1000)) % 1000 # 0)

\* the carry into fraction bit k - 1 of the exact product frac * c
RECURSIVE MulCarry(_, _, _)
MulCarry(frac, c, k) ==
    IF k > FracBits THEN 0 ELSE (frac[k] * c + MulCarry(frac, c, k + 1)) \div 2

\* (secs % 1) * 1000: the product of a fraction and an integer, rounded
FracTimes(frac, c) ==
    Round53([int |-> MulCarry(frac, c, 1),
             frac |-> [k \in 1..FracBits |->
                         (frac[k] * c + MulCarry(frac, c, k + 1)) % 2]],
            FALSE)

\* seconds_to_srt_time: the numbers printed as HH:MM:SS,mmm
SecondsToSrtTime(seconds) ==
    [h |-> seconds.int \div 3600,
     m |-> (seconds.int % 3600) \div 60,
     s |-> seconds.int % 60,
     ms |-> FracTimes(seconds.frac, 1000).int]

\* srt_time_to_seconds of the text "HH:MM:SS,mmm":
\* float(HH) * 3600 + float(MM) * 60 + float("SS.mmm")
SrtTimeToSeconds(t) ==
    LET Plus(whole, seconds) ==
            Round53([int |-> whole + seconds.int, frac |-> seconds.frac], FALSE)
    IN  Plus(t.h * 3600 + t.m * 60, DecimalToFloat(t.s * 1000 + t.ms))

\* the time as a float: the literal H*3600 + M*60 + S.mmm
TimeValue(t) == DecimalToFloat(((t.h * 60 + t.m) * 60 + t.s) * 1000 + t.ms)

NoFloat == [int |-> 0, frac |-> <<>>]
NoTime == [h |-> -1, m |-> -1, s |-> -1, ms |-> -1]

SrtIdle ==
    /\ st_pc = "idle"
    /\ st_in = NoTime
    /\ st_text = NoTime
    /\ st_seconds = NoFloat
    /\ st_round = NoTime

SrtInit ==
    /\ st_pc = "start"
    /\ st_in \in SrtTimes
    /\ st_text = NoTime
    /\ st_seconds = NoFloat
    /\ st_round = NoTime

\* seconds_to_srt_time(x) for the time as a float x
EncodeSeconds ==
    /\ st_pc = "start"
    /\ st_text' = SecondsToSrtTime(TimeValue(st_in))
    /\ st_pc' = "encoded"
    /\ UNCHANGED <<st_in, st_seconds, st_round>>
    /\ UNCHANGED notSrt

\* srt_time_to_seconds of the canonical timestamp of the time
ParseTimestamp ==
    /\ st_pc = "encoded"
    /\ st_seconds' = SrtTimeToSeconds(st_in)
    /\ st_pc' = "parsed"
    /\ UNCHANGED <<st_in, st_text, st_round>>
    /\ UNCHANGED notSrt

\* srt_time_to_seconds of a number: float(srt_time)
ParseNumber ==
    /\ st_pc = "encoded"
    /\ st_seconds' = TimeValue(st_in)
    /\ st_pc' = "parsed"
    /\ UNCHANGED <<st_in, st_text, st_round>>
    /\ UNCHANGED notSrt

\* seconds_to_srt_time of the parsed seconds
ReEncode ==
    /\ st_pc = "parsed"
    /\ st_round' = SecondsToSrtTime(st_seconds)
    /\ st_pc' = "done"
    /\ UNCHANGED <<st_in, st_text, st_seconds>>
    /\ UNCHANGED notSrt

----------------------------------------------------------------------------
(* Subtitle overlay placement: RenderService._position_and_add_clip          *)

\* bounds of the checked inputs
MaxClipHeight == 12
MaxMarginY == 3

\* (video_w, video_h) of the frame
FrameSizes == {<<6, 10>>, <<10, 6>>}

\* the cues: the duration of the cue, the animation of the style, bg_enabled,
\* karaoke mode (hl_active_word) with the number of words and the word shown
StillCue ==
    [duration |-> R(1), animation |-> "none", bg_enabled |-> FALSE, bg_padding |-> 1,
     karaoke |-> FALSE, word_count |-> 1, word |-> 0]

\* <<karaoke, word_count, word>>: the one call of a normal cue, and the call
\* for word i of a karaoke cue of word_count words
WordsShown ==
    {<<FALSE, 1, 0>>}
        \cup { wd \in { <<TRUE, wc, i>> : wc \in 1..MaxWords, i \in 0..(MaxWords - 1) } :
                 wd[3] < wd[2] }

AnimatedCues ==
    { [duration |-> d, animation |-> an, bg_enabled |-> bg, bg_padding |-> 1,
       karaoke |-> wd[1], word_count |-> wd[2], word |-> wd[3]] :
        d \in {Frac(3, 10), Frac(1, 2), R(2)}, an \in {"none", "fade", "pop"},
        bg \in BOOLEAN,
        wd \in WordsShown }

\* the calls checked: every geometry with a still cue, every cue with one geometry
PlaceInputs ==
    { [clip_w |-> cw, clip_h |-> ch, video_w |-> v[1], video_h |-> v[2],
       position |-> pos, margin_y |-> my, cue |-> StillCue] :
        cw \in {1, 5, 6, 9, 10, 12, 20}, ch \in 1..MaxClipHeight, v \in FrameSizes,
        pos \in {"top", "middle", "bottom"}, my \in 0..MaxMarginY }
      \cup
    { [clip_w |-> 5, clip_h |-> 3, video_w |-> 10, video_h |-> 6,
       position |-> "bottom", margin_y |-> 1, cue |-> c] : c \in AnimatedCues }

\* the animation _add_subtitles passes for word i of a karaoke cue
SegAnim(animation, i, word_count) ==
    LET is_first == i = 0
        is_last == i = word_count - 1
    IN  IF animation = "fade"
        THEN IF is_first /\ is_last THEN "fade_in_out"
             ELSE IF is_first THEN "fade_in"
                  ELSE IF is_last THEN "fade_out" ELSE "none"
        ELSE IF animation = "pop" /\ is_first THEN "pop" ELSE "none"

\* the arguments of the call for the cue: the duration and the animation
CallDuration(cue) ==
    IF cue.karaoke THEN RDiv(cue.duration, R(cue.word_count)) ELSE cue.duration

CallAnimation(cue) ==
    IF cue.karaoke THEN SegAnim(cue.animation, cue.word, cue.word_count)
    ELSE cue.animation

\* resize(lambda t: max(0.1, min(1, t * 5))): the clip is below its full size
\* for the first 0.2 s, or for all of a shorter clip
PopWindow(duration) == RMin(Frac(1, 5), duration)

\* "Apply animations": the entrance and the exit window of a clip of the duration
AnimationWindows(animation, duration) ==
    LET Windows(entrance, exit) == [entrance |-> entrance, exit |-> exit]
        Both(fade_duration) == Windows(fade_duration, fade_duration)
    IN  CASE animation \in {"fade", "fade_in_out"} ->
                Both(RMin(Frac(3, 10), RDiv(duration, R(2))))
          [] animation = "fade_in" -> Windows(RMin(Frac(3, 10), duration), RZero)
          [] animation = "fade_out" -> Windows(RZero, RMin(Frac(3, 10), duration))
          [] animation = "pop" -> Windows(PopWindow(duration), RZero)
          [] OTHER -> Windows(RZero, RZero)

\* "Apply Animation to BG" of the karaoke branch of _add_subtitles
KaraokeBgWindows(animation, duration) ==
    LET f_dur == RMin(Frac(3, 10), RDiv(duration, R(2)))
    IN  [entrance |-> IF animation \in {"fade", "fade_in_out", "fade_in"} THEN f_dur
                      ELSE IF animation = "pop" THEN PopWindow(duration) ELSE RZero,
         exit |-> IF animation \in {"fade", "fade_in_out", "fade_out"} THEN f_dur
                  ELSE RZero]

\* the background box of an overlay at (x_pos, y_pos)
BgClip(in, clip, windows) ==
    [x |-> clip.x_pos - in.cue.bg_padding, y |-> clip.y_pos - in.cue.bg_padding,
     w |-> clip.clip_w + in.cue.bg_padding * 2,
     h |-> clip.clip_h + in.cue.bg_padding * 2,
     entrance |-> windows.entrance, exit |-> windows.exit]

\* "Horizontal safety check": txt_clip.resize(width=video_w) keeps the aspect
\* ratio, the new height is int(clip_h * video_w / clip_w)
FitWidth(in) ==
    IF in.clip_w > in.video_w
    THEN <<in.video_w, (in.clip_h * in.video_w) \div in.clip_w>>
    ELSE <<in.clip_w, in.clip_h>>

\* the position the overlay of size (clip_w, clip_h) is given
ClipPosition(in, clip_w, clip_h) ==
    LET Least(a, b) == IF a < b THEN a ELSE b
        Most(a, b) == IF a > b THEN a ELSE b
        SafeClamp(y_pos) ==
            [clip_w |-> clip_w, clip_h |-> clip_h,
             x_pos |-> (in.video_w - clip_w) \div 2,
             y_pos |-> Most(0, Least(y_pos, in.video_h - clip_h))]
    IN  SafeClamp(CASE in.position = "top" -> in.margin_y
                    [] in.position = "middle" -> (in.video_h - clip_h) \div 2
                    [] OTHER -> in.video_h - clip_h - in.margin_y)

NoClip == [clip_w |-> 0, clip_h |-> 0, x_pos |-> 0, y_pos |-> 0]

NoWindows == [entrance |-> RZero, exit |-> RZero]

PlaceIdle ==
    /\ pl_pc = "idle"
    /\ pl_in = <<>>
    /\ pl_clip = NoClip
    /\ pl_anim = NoWindows
    /\ pl_bg = <<>>

PlaceInit ==
    /\ pl_pc = "call"
    /\ pl_in \in PlaceInputs
    /\ pl_clip = NoClip
    /\ pl_anim = NoWindows
    /\ pl_bg = <<>>

\* the karaoke branch adds the background of the whole cue before its first word
KaraokeBgDue(in) == in.cue.karaoke /\ in.cue.bg_enabled /\ in.cue.word = 0

\* "Handle Background Separately for Karaoke": the box of the layout, placed by
\* the replicated position logic, for the duration of the cue
KaraokeBackground ==
    /\ pl_pc = "call"
    /\ KaraokeBgDue(pl_in)
    /\ pl_bg' = Append(pl_bg,
                       BgClip(pl_in, ClipPosition(pl_in, pl_in.clip_w, pl_in.clip_h),
                              KaraokeBgWindows(pl_in.cue.animation, pl_in.cue.duration)))
    /\ pl_pc' = "word"
    /\ UNCHANGED <<pl_in, pl_clip, pl_anim>>
    /\ UNCHANGED notPlace

\* _position_and_add_clip: fit the width, place, clamp, animate, add the
\* background (never in karaoke mode, which passes bg_enabled=False), append
PositionAndAddClip ==
    /\ \/ pl_pc = "call" /\ ~KaraokeBgDue(pl_in)
       \/ pl_pc = "word"
    /\ \E size \in {FitWidth(pl_in)} :
       \E windows \in {AnimationWindows(CallAnimation(pl_in.cue),
                                        CallDuration(pl_in.cue))} :
          /\ pl_clip' = ClipPosition(pl_in, size[1], size[2])
          /\ pl_anim' = windows
          /\ pl_bg' = IF pl_in.cue.bg_enabled /\ ~pl_in.cue.karaoke
                      THEN Append(pl_bg,
                                  BgClip(pl_in, ClipPosition(pl_in, size[1], size[2]),
                                         windows))
                      ELSE pl_bg
    /\ pl_pc' = "placed"
    /\ UNCHANGED pl_in
    /\ UNCHANGED notPlace

----------------------------------------------------------------------------
(* Entrance transitions: RenderService._apply_transition                     *)

\* bound of the checked runs: frames asked of one clip
MaxTransitionFrames == 12

SlideTransitions == {"slide_left", "slide_right", "slide_up", "slide_down"}

TransitionInputs ==
    { [transition |-> tt, w |-> size[1], h |-> size[2], fps |-> fps] :
        tt \in SlideTransitions \cup {"crossfade", "zoom_in", "zoom_out"},
        size \in {<<1920, 1080>>, <<1080, 1920>>, <<7, 5>>},
        fps \in {10, 24} }

\* an easing without the test "if t >= duration"
GetPUnclamped(t, duration) ==
    LET Cube(a) == RMul(a, RMul(a, a))
    IN  IF RLe(t, RZero) THEN RZero
        ELSE RSub(ROne, Cube(RSub(ROne, RDiv(t, duration))))

\* get_p: EaseOutCubic of t / duration, 0 before the start and 1 from duration on
GetP(t, duration) ==
    LET Cube(a) == RMul(a, RMul(a, a))
    IN  IF RGe(t, duration) THEN ROne
        ELSE IF RLe(t, RZero) THEN RZero
             ELSE RSub(ROne, Cube(RSub(ROne, RDiv(t, duration))))

\* the position function the clip is given: pos(t) of the four slides; the other
\* transitions leave the clip at its default position (0, 0)
TransitionPos(in, t, duration) ==
    LET Offset(length) == RTrunc(RMul(R(length), RSub(ROne, GetP(t, duration))))
    IN  CASE in.transition = "slide_left" -> <<Offset(in.w), 0>>
          [] in.transition = "slide_right" -> <<Offset(-in.w), 0>>
          [] in.transition = "slide_up" -> <<0, Offset(in.h)>>
          [] in.transition = "slide_down" -> <<0, Offset(-in.h)>>
          [] OTHER -> <<0, 0>>

TransIdle ==
    /\ tr_pc = "idle"
    /\ tr_in = <<>>
    /\ tr_frames = <<>>

TransInit ==
    /\ tr_pc = "call"
    /\ tr_in \in TransitionInputs
    /\ tr_frames = <<>>

\* _apply_transition returns the clip with its position function
ApplyTransition ==
    /\ tr_pc = "call"
    /\ tr_pc' = "playing"
    /\ UNCHANGED <<tr_in, tr_frames>>
    /\ UNCHANGED notTrans

\* the compositor asks the clip for its next frame, at t = frame number / fps
GetFrame ==
    /\ tr_pc = "playing"
    /\ Len(tr_frames) < MaxTransitionFrames
    /\ \E t \in {Frac(Len(tr_frames), tr_in.fps)} :
          tr_frames' = Append(tr_frames,
                              [t |-> t, pos |-> TransitionPos(tr_in, t, transition_duration)])
    /\ UNCHANGED <<tr_pc, tr_in>>
    /\ UNCHANGED notTrans

----------------------------------------------------------------------------
(* Job progress: PipelineService and the encoder's progress logger           *)

\* bounds of the checked inputs: the lengths of the encoder's bars
MaxAudioChunks == 2
MaxVideoFrames == 3
\* bound of the checked behaviours: runs of the same entry point on one project
MaxRuns == 2

JobInputs ==
    { [entry |-> e, audio_total |-> a, video_total |-> v] :
        e \in {"run_full_pipeline", "render_only"},
        a \in 1..MaxAudioChunks, v \in 2..MaxVideoFrames }

\* the steps of run_full_pipeline in order; render_only has the last one only
NextStep(step) ==
    CASE step = "analysis" -> "segments"
      [] step = "segments" -> "prompts"
      [] step = "prompts" -> "images"
      [] step = "images" -> "render"

\* the progress written when a step is entered
StepProgress(entry, step) ==
    CASE entry = "render_only" -> <<0>>
      [] step = "analysis" -> <<5>>
      [] step = "segments" -> <<15>>
      [] step = "prompts" -> <<25>>
      [] step = "images" -> <<>>
      [] step = "render" -> <<70>>

\* image_progress(p)
ImageProgressValue(p) == 30 + (p * 4) \div 10

\* render_progress(p) of the two entry points
RenderProgressValue(entry, p) ==
    IF entry = "run_full_pipeline" THEN 70 + (p * 3) \div 10 ELSE p

\* the encoder's next report: the audio bar "chunk" runs from 0 to its total,
\* then the video bar "t" does
NextBars(bars, in) ==
    IF "chunk" \notin DOMAIN bars THEN [chunk |-> 0]
    ELSE IF "t" \in DOMAIN bars THEN [bars EXCEPT !.t = bars.t + 1]
    ELSE IF bars.chunk < in.audio_total THEN [bars EXCEPT !.chunk = bars.chunk + 1]
    ELSE [chunk |-> bars.chunk, t |-> 0]

EncodeFinished(bars, in) == "t" \in DOMAIN bars /\ bars.t = in.video_total

\* MoviePyProgressLogger.callback: the percentage of the main bar
BarPercent(bars, in) ==
    LET Least(a, b) == IF a < b THEN a ELSE b
    IN  IF "t" \in DOMAIN bars
        THEN Least((100 * bars.t) \div in.video_total, 100)
        ELSE Least((100 * bars.chunk) \div in.audio_total, 100)

NoJob == [entry |-> "", audio_total |-> 0, video_total |-> 0]

\* a job file that does not exist yet
NoRecord == [status |-> "", error |-> FALSE]

\* JsonRepository.update: data.update(updates) merges the keys of the update
\* into the stored record and leaves every other key as it is
UpdateJob(record, status, with_error) ==
    [status |-> status, error |-> record.error \/ with_error]

JobIdle ==
    /\ jb_pc = "idle"
    /\ jb_in = NoJob
    /\ jb_step = ""
    /\ jb_attempt = 0
    /\ jb_images_p = 0
    /\ jb_bars = <<>>
    /\ jb_last_pct = 0
    /\ jb_log = <<>>
    /\ jb_job = NoRecord
    /\ jb_project = ""
    /\ jb_runs = 0

JobInit ==
    /\ jb_pc = "begin"
    /\ jb_in \in JobInputs
    /\ jb_step = IF jb_in.entry = "render_only" THEN "render" ELSE "analysis"
    /\ jb_attempt = 0
    /\ jb_images_p = 0
    /\ jb_bars = <<>>
    /\ jb_last_pct = 0
    /\ jb_log = <<>>
    /\ jb_job = NoRecord
    /\ jb_project = "NEW"
    /\ jb_runs = 1

\* a step is entered: its progress is written, the first attempt starts (for
\* the render step, render() builds its logger with last_pct = -1)
BeginStep ==
    /\ jb_pc = "begin"
    /\ jb_log' = jb_log \o StepProgress(jb_in.entry, jb_step)
    /\ jb_attempt' = 1
    /\ jb_images_p' = 0
    /\ jb_bars' = <<>>
    /\ jb_last_pct' = -1
    /\ jb_pc' = "running"
    /\ jb_job' = UpdateJob(jb_job, "RUNNING", FALSE)
    /\ UNCHANGED <<jb_in, jb_step, jb_project, jb_runs>>
    /\ UNCHANGED notJob

\* the billing block after the storyboard fails: FAILED, return ""
BillingFails ==
    /\ jb_pc = "begin"
    /\ jb_step = "prompts"
    /\ jb_pc' = "failed"
    /\ jb_job' = UpdateJob(jb_job, "FAILED", TRUE)
    /\ jb_project' = "FAILED"
    /\ UNCHANGED <<jb_in, jb_step, jb_attempt, jb_images_p, jb_bars, jb_last_pct, jb_log,
                   jb_runs>>
    /\ UNCHANGED notJob

\* the image service reports a percentage (5 and 100 in batch mode, the share of
\* the completed images otherwise)
ImageProgress ==
    /\ jb_pc = "running"
    /\ jb_step = "images"
    /\ \E p \in {5, 50, 100} :
          /\ p > jb_images_p
          /\ jb_images_p' = p
          /\ jb_log' = Append(jb_log, ImageProgressValue(p))
    /\ UNCHANGED <<jb_pc, jb_in, jb_step, jb_attempt, jb_bars, jb_last_pct,
                   jb_job, jb_project, jb_runs>>
    /\ UNCHANGED notJob

\* the encoder reports on a bar: callback(**changes)
EncoderEvent ==
    /\ jb_pc = "running"
    /\ jb_step = "render"
    /\ ~EncodeFinished(jb_bars, jb_in)
    /\ jb_bars' = NextBars(jb_bars, jb_in)
    /\ \E pct \in {BarPercent(NextBars(jb_bars, jb_in), jb_in)} :
          IF pct # jb_last_pct
          THEN /\ jb_log' = Append(jb_log, RenderProgressValue(jb_in.entry, pct))
               /\ jb_last_pct' = pct
          ELSE UNCHANGED <<jb_log, jb_last_pct>>
    /\ UNCHANGED <<jb_pc, jb_in, jb_step, jb_attempt, jb_images_p,
                   jb_job, jb_project, jb_runs>>
    /\ UNCHANGED notJob

\* the action of a step before the last returns
StepSucceeds ==
    /\ jb_pc = "running"
    /\ jb_step # "render"
    /\ jb_step' = NextStep(jb_step)
    /\ jb_pc' = "begin"
    /\ UNCHANGED <<jb_in, jb_attempt, jb_images_p, jb_bars, jb_last_pct, jb_log,
                   jb_job, jb_project, jb_runs>>
    /\ UNCHANGED notJob

\* render() returns: DONE, progress 100
Complete ==
    /\ jb_pc = "running"
    /\ jb_step = "render"
    /\ EncodeFinished(jb_bars, jb_in)
    /\ jb_log' = Append(jb_log, 100)
    /\ jb_pc' = "done"
    /\ jb_job' = UpdateJob(jb_job, "DONE", FALSE)
    /\ jb_project' = "DONE"
    /\ UNCHANGED <<jb_in, jb_step, jb_attempt, jb_images_p, jb_bars, jb_last_pct,
                   jb_runs>>
    /\ UNCHANGED notJob

\* a _run_step that calls the action once more after the last attempt failed
RunStepAttempts3 == 2 + 1

\* attempts of _run_step
RunStepAttempts == 2

\* _run_step: the action raises before the last attempt: RETRYING with the
\* error, then RUNNING and the action is called again (a new render() call has
\* a new logger)
StepRetried ==
    /\ jb_pc = "running"
    /\ jb_in.entry = "run_full_pipeline"
    /\ jb_attempt < RunStepAttempts
    /\ jb_attempt' = jb_attempt + 1
    /\ jb_images_p' = 0
    /\ jb_bars' = <<>>
    /\ jb_last_pct' = -1
    /\ jb_job' = UpdateJob(UpdateJob(jb_job, "RETRYING", TRUE), "RUNNING", FALSE)
    /\ UNCHANGED <<jb_pc, jb_in, jb_step, jb_log, jb_project, jb_runs>>
    /\ UNCHANGED notJob

\* the action raises on the last attempt (render_only has one): FAILED
StepFails ==
    /\ jb_pc = "running"
    /\ jb_in.entry = "render_only" \/ jb_attempt >= RunStepAttempts
    /\ jb_pc' = "failed"
    /\ jb_job' = UpdateJob(jb_job, "FAILED", TRUE)
    /\ jb_project' = "FAILED"
    /\ UNCHANGED <<jb_in, jb_step, jb_attempt, jb_images_p, jb_bars, jb_last_pct, jb_log,
                   jb_runs>>
    /\ UNCHANGED notJob

\* the same entry point is run once more on the project: the job file of the
\* earlier run is still there
RunAgain ==
    /\ jb_pc \in {"done", "failed"}
    /\ jb_runs < MaxRuns
    /\ jb_runs' = jb_runs + 1
    /\ jb_pc' = "begin"
    /\ jb_step' = IF jb_in.entry = "render_only" THEN "render" ELSE "analysis"
    /\ jb_attempt' = 0
    /\ jb_images_p' = 0
    /\ jb_bars' = <<>>
    /\ jb_last_pct' = 0
    /\ jb_log' = <<>>
    /\ UNCHANGED <<jb_in, jb_job, jb_project>>
    /\ UNCHANGED notJob

----------------------------------------------------------------------------
(* Concurrent requests on one project: render_project / render_only and      *)
(* update_segment. Every load and save of a JSON file is atomic (FileLock);  *)
(* nothing is held across the steps of a request.                            *)

\* bound of the checked behaviours: render requests in flight
MaxRequests == 2

Requests == 1..MaxRequests

\* the stored storyboards checked: two segments with their images, kinds
\* concrete or left to the renderer
RequestProjects == [1..2 -> {"ok", "random"}]

\* the edits checked: PATCH of one segment with a new effect
SegmentUpdates == { [seg_id |-> k, effect |-> "zoom_out"] : k \in 1..2 }

NoUpdate == [seg_id |-> 0, effect |-> ""]

ReqIdle ==
    /\ rq_pc = <<>>
    /\ rq_segments = <<>>
    /\ rq_output = <<>>
    /\ rq_writes = <<>>
    /\ ed_pc = "idle"
    /\ ed_in = NoUpdate
    /\ ed_segments = <<>>

ReqInit ==
    /\ rq_pc = [p \in Requests |-> "idle"]
    /\ rq_segments = [p \in Requests |-> <<>>]
    /\ rq_output = [p \in Requests |-> 0]
    /\ rq_writes = <<>>
    /\ ed_pc = "idle"
    /\ ed_in \in SegmentUpdates
    /\ ed_segments = <<>>
    /\ \E shapes \in RequestProjects :
          /\ stored_segments = [k \in 1..Len(shapes) |-> ShapeSegment(k, shapes[k])]
          /\ images = UNION { ShapeImages(k, shapes[k]) : k \in 1..Len(shapes) }
          /\ prompts = [k \in 1..Len(shapes) |-> ShapeVersion(shapes[k])]
    /\ audio_present = TRUE
    /\ renders = <<>>

\* render(): "Load data"
RequestLoad(p) ==
    /\ rq_pc[p] = "idle"
    /\ rq_segments' = [rq_segments EXCEPT ![p] = stored_segments]
    /\ rq_pc' = [rq_pc EXCEPT ![p] = "loaded"]
    /\ UNCHANGED <<rq_output, rq_writes, ed_pc, ed_in, ed_segments, storeVars>>
    /\ UNCHANGED notReq

\* render(): _create_clips resolves the "random" kinds on the loaded list, then
\* project_repo.save_segments writes the list
RequestSave(p) ==
    /\ rq_pc[p] = "loaded"
    /\ \E effect \in {"zoom_in", "pan_up"}, transition \in {"slide_left"} :
       \E resolved \in
            {[k \in 1..Len(rq_segments[p]) |->
                WriteBack(rq_segments[p][k], k,
                          ClipEffect(rq_segments[p][k], effect),
                          ClipTransition(rq_segments[p][k], k, transition))]} :
          /\ rq_segments' = [rq_segments EXCEPT ![p] = resolved]
          /\ stored_segments' = resolved
    /\ rq_pc' = [rq_pc EXCEPT ![p] = "saved"]
    /\ UNCHANGED <<rq_output, rq_writes, ed_pc, ed_in, ed_segments,
                   images, prompts, audio_present, renders>>
    /\ UNCHANGED notReq

\* render(): get_next_render_path counts the files final_v*.mp4
RequestPath(p) ==
    /\ rq_pc[p] = "saved"
    /\ rq_output' = [rq_output EXCEPT ![p] = NextRenderVersion]
    /\ rq_pc' = [rq_pc EXCEPT ![p] = "path"]
    /\ UNCHANGED <<rq_segments, rq_writes, ed_pc, ed_in, ed_segments, storeVars>>
    /\ UNCHANGED notReq

\* write_videofile: the encoder opens the output file
RequestWriteBegin(p) ==
    /\ rq_pc[p] = "path"
    /\ rq_writes' = Append(rq_writes,
                           [request |-> p, path |-> rq_output[p],
                            existed |-> rq_output[p] \in DOMAIN renders])
    /\ renders' = AbortedOutput(rq_output[p])
    /\ rq_pc' = [rq_pc EXCEPT ![p] = "writing"]
    /\ UNCHANGED <<rq_segments, rq_output, ed_pc, ed_in, ed_segments,
                   stored_segments, images, prompts, audio_present>>
    /\ UNCHANGED notReq

\* write_videofile: the encode is complete, render_only returns
RequestWriteEnd(p) ==
    /\ rq_pc[p] = "writing"
    /\ renders' = (rq_output[p] :> "complete") @@ renders
    /\ rq_pc' = [rq_pc EXCEPT ![p] = "done"]
    /\ UNCHANGED <<rq_segments, rq_output, rq_writes, ed_pc, ed_in, ed_segments,
                   stored_segments, images, prompts, audio_present>>
    /\ UNCHANGED notReq

\* update_segment: get_segments (and get_prompts)
UpdateLoad ==
    /\ ed_pc = "idle"
    /\ ed_segments' = stored_segments
    /\ ed_pc' = "loaded"
    /\ UNCHANGED <<rq_pc, rq_segments, rq_output, rq_writes, ed_in, storeVars>>
    /\ UNCHANGED notReq

\* update_segment: the payload is set on the segment of the loaded list, which
\* save_segments then writes
UpdateOnLoaded(loaded, update) ==
    [loaded EXCEPT ![update.seg_id].effect = update.effect]

\* update_segment: save_segments (and save_prompts, with the prompts as loaded)
UpdateSave ==
    /\ ed_pc = "loaded"
    /\ stored_segments' = UpdateOnLoaded(ed_segments, ed_in)
    /\ ed_pc' = "done"
    /\ UNCHANGED <<rq_pc, rq_segments, rq_output, rq_writes, ed_in, ed_segments,
                   images, prompts, audio_present, renders>>
    /\ UNCHANGED notReq

----------------------------------------------------------------------------
(* The stored subtitle file: SubtitleService.import_srt, update_entries,      *)
(* _parse_srt and RenderService._parse_srt_file.                             *)
(*                                                                          *)
(* A file is the sequence of its lines; a line is blank, a number, a text or *)
(* a timing line "start --> end". A timestamp keeps its digits and how many  *)
(* digits each of its four groups was written with.                         *)

\* bound of the checked inputs: blocks of an upload, entries of an update
MaxCues == 2

BlankLine == [kind |-> "blank"]
NumberLine(n) == [kind |-> "number", n |-> n]
TextLine(s) == [kind |-> "text", s |-> s]
TimingLine(start, end) == [kind |-> "timing", start |-> start, end |-> end]

Stamp(h, m, s, digits, width) ==
    [h |-> h, m |-> m, s |-> s, digits |-> digits, width |-> width]

\* the timestamps checked: 00:00:01,000  00:00:03,500  00:01:02,001
\* 0:00:01,000  00:00:03,5  001:00:00,000
LooseStart == Stamp(0, 0, 1, 0, <<1, 2, 2, 3>>)
LooseEnd == Stamp(0, 0, 3, 5, <<2, 2, 2, 1>>)
WideStart == Stamp(1, 0, 0, 0, <<3, 2, 2, 3>>)

\* the timing lines checked
TimingLines ==
    { TimingLine(Stamp(0, 0, 1, 0, <<2, 2, 2, 3>>), Stamp(0, 0, 3, 500, <<2, 2, 2, 3>>)),
      TimingLine(Stamp(0, 0, 3, 500, <<2, 2, 2, 3>>), Stamp(0, 1, 2, 1, <<2, 2, 2, 3>>)),
      TimingLine(LooseStart, Stamp(0, 0, 3, 500, <<2, 2, 2, 3>>)),
      TimingLine(Stamp(0, 0, 1, 0, <<2, 2, 2, 3>>), LooseEnd),
      TimingLine(WideStart, Stamp(0, 1, 2, 1, <<2, 2, 2, 3>>)) }

\* the blocks of an upload checked: with and without the number line, with up
\* to three lines before the timing line, with and without text, one line only
UploadBlocks ==
    { <<NumberLine(1), tl, TextLine("Hello")>> : tl \in TimingLines }
    \cup { <<TimingLine(Stamp(0, 0, 1, 0, <<2, 2, 2, 3>>), Stamp(0, 0, 3, 500, <<2, 2, 2, 3>>)),
             TextLine("Hello"), TextLine("world")>>,
           <<NumberLine(7), TimingLine(Stamp(0, 0, 1, 0, <<2, 2, 2, 3>>), Stamp(0, 0, 3, 500, <<2, 2, 2, 3>>))>>,
           <<TextLine("note"), NumberLine(2),
             TimingLine(Stamp(0, 0, 1, 0, <<2, 2, 2, 3>>), Stamp(0, 0, 3, 500, <<2, 2, 2, 3>>)),
             TextLine("Hello")>>,
           <<TextLine("note"), TextLine("note"), NumberLine(2),
             TimingLine(Stamp(0, 0, 1, 0, <<2, 2, 2, 3>>), Stamp(0, 0, 3, 500, <<2, 2, 2, 3>>)),
             TextLine("Hello")>>,
           <<TextLine("Hello")>> }

\* the entries of an update checked
UpdatedEntries ==
    { [id |-> 1, start_time |-> tl.start, end_time |-> tl.end, text |-> <<TextLine("Hello")>>] :
        tl \in TimingLines }
    \cup { [id |-> 2, start_time |-> Stamp(0, 0, 1, 0, <<2, 2, 2, 3>>),
            end_time |-> Stamp(0, 0, 3, 500, <<2, 2, 2, 3>>), text |-> text] :
             text \in { <<>>, <<TextLine("Hello"), BlankLine, TextLine("world")>> } }

RECURSIVE JoinBlocks(_)
JoinBlocks(blocks) ==
    IF blocks = <<>> THEN <<>>
    ELSE IF Len(blocks) = 1 THEN blocks[1]
    ELSE blocks[1] \o <<BlankLine>> \o JoinBlocks(Tail(blocks))

CueInputs ==
    { [kind |-> "upload", lines |-> JoinBlocks(blocks)] :
        blocks \in UNION { [1..n -> UploadBlocks] : n \in 1..MaxCues } }
    \cup { [kind |-> "entries", entries |-> entries] :
             entries \in UNION { [1..n -> UpdatedEntries] : n \in 1..MaxCues } }

\* _save_entries_as_srt: "{id}\n{start_time} --> {end_time}\n{text}" blocks joined
\* by a blank line
SaveEntriesAsSrt(entries) ==
    JoinBlocks([k \in 1..Len(entries) |->
                  <<NumberLine(entries[k].id),
                    TimingLine(entries[k].start_time, entries[k].end_time)>>
                  \o entries[k].text])

\* re.split(r'\n\n+', content.strip()): the runs of lines between blank lines
RECURSIVE SplitBlocks(_, _, _)
SplitBlocks(lines, k, current) ==
    IF k > Len(lines)
    THEN IF current = <<>> THEN <<>> ELSE <<current>>
    ELSE IF lines[k].kind = "blank"
         THEN (IF current = <<>> THEN <<>> ELSE <<current>>)
              \o SplitBlocks(lines, k + 1, <<>>)
         ELSE SplitBlocks(lines, k + 1, Append(current, lines[k]))

\* \d{1,2}:\d{1,2}:\d{1,2}[,\.]\d{1,3}
RelaxedStamp(stamp) ==
    /\ \A g \in 1..3 : stamp.width[g] \in 1..2
    /\ stamp.width[4] \in 1..3

\* \d{2}:\d{2}:\d{2}[,\.]\d{3}
StrictStamp(stamp) ==
    /\ \A g \in 1..3 : stamp.width[g] = 2
    /\ stamp.width[4] = 3

\* "Find the timing line": the first of the first three lines whose start
\* matches the pattern of the parser (strict: the renderer's), 0 for none
TimingLineIdx(lines, strict) ==
    LET Matches(stamp) == IF strict THEN StrictStamp(stamp) ELSE RelaxedStamp(stamp)
        found == { idx \in 1..Len(lines) :
                     idx <= 3 /\ lines[idx].kind = "timing" /\ Matches(lines[idx].start) }
    IN  IF found = {} THEN 0 ELSE CHOOSE idx \in found : \A other \in found : idx <= other

\* the digits of a timestamp as HH, MM and SS.mmm
StampTime(stamp) ==
    [h |-> stamp.h, m |-> stamp.m, s |-> stamp.s,
     ms |-> stamp.digits * 10 ^ (3 - stamp.width[4])]

\* _parse_srt: one block
ParseSrtBlock(lines, entries) ==
    LET Entry(idx) ==
            [id |-> IF idx > 1 /\ lines[1].kind = "number"
                    THEN lines[1].n ELSE Len(entries) + 1,
             start_time |-> SecondsToSrtTime(SrtTimeToSeconds(StampTime(lines[idx].start))),
             end_time |-> SecondsToSrtTime(SrtTimeToSeconds(StampTime(lines[idx].end))),
             text |-> SubSeq(lines, idx + 1, Len(lines))]
        At(idx) ==
            IF idx = 0 \/ ~RelaxedStamp(lines[idx].end) \/ idx = Len(lines)
            THEN entries
            ELSE Append(entries, Entry(idx))
    IN  IF Len(lines) < 2 THEN entries
        ELSE At(TimingLineIdx(lines, FALSE))

RECURSIVE ParseSrtBlocks(_, _)
ParseSrtBlocks(blocks, entries) ==
    IF blocks = <<>> THEN entries
    ELSE ParseSrtBlocks(Tail(blocks), ParseSrtBlock(blocks[1], entries))

\* SubtitleService._parse_srt
ParseSrt(file) == ParseSrtBlocks(SplitBlocks(file, 1, <<>>), <<>>)

\* _parse_srt_file: one block
ParseSrtFileBlock(lines, entries) ==
    LET Entry(idx) ==
            [start |-> lines[idx].start,
             end |-> lines[idx].end,
             start_seconds |-> SrtTimeToSeconds(StampTime(lines[idx].start)),
             end_seconds |-> SrtTimeToSeconds(StampTime(lines[idx].end)),
             text |-> SubSeq(lines, idx + 1, Len(lines))]
        At(idx) ==
            IF idx = 0 \/ ~StrictStamp(lines[idx].end) \/ idx = Len(lines)
            THEN entries
            ELSE Append(entries, Entry(idx))
    IN  IF Len(lines) < 2 THEN entries
        ELSE At(TimingLineIdx(lines, TRUE))

RECURSIVE ParseSrtFileBlocks(_, _)
ParseSrtFileBlocks(blocks, entries) ==
    IF blocks = <<>> THEN entries
    ELSE ParseSrtFileBlocks(Tail(blocks), ParseSrtFileBlock(blocks[1], entries))

\* RenderService._parse_srt_file
ParseSrtFile(file) == ParseSrtFileBlocks(SplitBlocks(file, 1, <<>>), <<>>)

CueIdle ==
    /\ cf_pc = "idle"
    /\ cf_in = <<>>
    /\ cf_file = <<>>
    /\ cf_entries = <<>>
    /\ cf_cues = <<>>

CueInit ==
    /\ cf_pc = "start"
    /\ cf_in \in CueInputs
    /\ cf_file = <<>>
    /\ cf_entries = <<>>
    /\ cf_cues = <<>>

\* import_srt: the upload is saved raw, then parsed
ImportSrt ==
    /\ cf_pc = "start"
    /\ cf_in.kind = "upload"
    /\ cf_file' = cf_in.lines
    /\ cf_entries' = ParseSrt(cf_in.lines)
    /\ cf_pc' = "loaded"
    /\ UNCHANGED <<cf_in, cf_cues>>
    /\ UNCHANGED notCue

\* update_entries: the entries are written as an SRT file
UpdateEntries ==
    /\ cf_pc = "start"
    /\ cf_in.kind = "entries"
    /\ cf_file' = SaveEntriesAsSrt(cf_in.entries)
    /\ cf_pc' = "stored"
    /\ UNCHANGED <<cf_in, cf_entries, cf_cues>>
    /\ UNCHANGED notCue

\* load_subtitles: the stored file is parsed for the editor
LoadSubtitles ==
    /\ cf_pc = "stored"
    /\ cf_entries' = ParseSrt(cf_file)
    /\ cf_pc' = "loaded"
    /\ UNCHANGED <<cf_in, cf_file, cf_cues>>
    /\ UNCHANGED notCue

\* _add_subtitles: the stored file is parsed for the overlay
AddSubtitlesParse ==
    /\ cf_pc = "loaded"
    /\ cf_cues' = ParseSrtFile(cf_file)
    /\ cf_pc' = "rendered"
    /\ UNCHANGED <<cf_in, cf_file, cf_entries>>
    /\ UNCHANGED notCue

----------------------------------------------------------------------------
(* ProductionPipeline: the jobs of one project on the InMemoryQueue, and     *)
(* regenerate_segment called between two jobs. The services answer without  *)
(* raising; a regenerate_segment before the prompts exist raises KeyError    *)
(* and changes nothing.                                                     *)

\* bounds of the checked behaviours: segments of the storyboard, calls of
\* regenerate_segment
MaxStoryboard == 3
MaxRegenerated == 2

Unset == <<0>>

Job(name, segment_id) == [name |-> name, segment_id |-> segment_id]

ProdIdle ==
    /\ pp_state = ""
    /\ pp_audio_uri = ""
    /\ pp_queue = <<>>
    /\ pp_segments = <<>>
    /\ pp_prompts = <<>>
    /\ pp_assets = <<>>
    /\ pp_ran = <<>>
    /\ pp_regenerated = 0

\* InMemoryDB.create_project
ProdInit ==
    /\ pp_state = "UPLOADED"
    /\ pp_audio_uri = ""
    /\ pp_queue = <<>>
    /\ pp_segments = Unset
    /\ pp_prompts = Unset
    /\ pp_assets = <<>>
    /\ pp_ran = <<>>
    /\ pp_regenerated = 0

UploadAudio ==
    /\ pp_audio_uri = ""
    /\ pp_audio_uri' = "track"
    /\ pp_state' = "UPLOADED"
    /\ pp_queue' = Append(pp_queue, Job("ANALYZE_AUDIO", 0))
    /\ UNCHANGED <<pp_segments, pp_prompts, pp_assets, pp_ran, pp_regenerated>>
    /\ UNCHANGED notProd

\* InMemoryQueue.run_next: the job at the head of the queue
NextJobIs(name) == pp_queue # <<>> /\ Head(pp_queue).name = name

\* run_next of ANALYZE_AUDIO
HandleAnalyzeAudio ==
    /\ NextJobIs("ANALYZE_AUDIO")
    /\ pp_state' = "ANALYZED"
    /\ pp_queue' = Append(Tail(pp_queue), Job("STORYBOARD", 0))
    /\ pp_ran' = Append(pp_ran, Head(pp_queue))
    /\ UNCHANGED <<pp_audio_uri, pp_segments, pp_prompts, pp_assets, pp_regenerated>>
    /\ UNCHANGED notProd

\* run_next of STORYBOARD: the storyboard has as many segments as the model
\* returned
HandleStoryboard ==
    /\ NextJobIs("STORYBOARD")
    /\ \E n \in 0..MaxStoryboard : pp_segments' = [k \in 1..n |-> k]
    /\ pp_state' = "STORYBOARDED"
    /\ pp_queue' = Append(Tail(pp_queue), Job("PROMPT_FACTORY", 0))
    /\ pp_ran' = Append(pp_ran, Head(pp_queue))
    /\ UNCHANGED <<pp_audio_uri, pp_prompts, pp_assets, pp_regenerated>>
    /\ UNCHANGED notProd

\* run_next of PROMPT_FACTORY: one prompt of version 1 and one GENERATE_IMAGE
\* job per segment
HandlePromptFactory ==
    /\ NextJobIs("PROMPT_FACTORY")
    /\ pp_prompts' = [k \in 1..Len(pp_segments) |-> 1]
    /\ pp_state' = "PROMPTED"
    /\ pp_queue' = Tail(pp_queue)
                   \o [k \in 1..Len(pp_segments) |-> Job("GENERATE_IMAGE", pp_segments[k])]
    /\ pp_ran' = Append(pp_ran, Head(pp_queue))
    /\ UNCHANGED <<pp_audio_uri, pp_segments, pp_assets, pp_regenerated>>
    /\ UNCHANGED notProd

\* _handle_generate_image: RENDER is enqueued when the assets are as many as
\* the prompts
AssetsComplete(assets, payloads) == Len(assets) = Len(payloads)

\* run_next of GENERATE_IMAGE
HandleGenerateImage ==
    /\ NextJobIs("GENERATE_IMAGE")
    /\ \E assets \in {Append(pp_assets,
                             [segment_id |-> Head(pp_queue).segment_id,
                              version |-> pp_prompts[Head(pp_queue).segment_id]])} :
          /\ pp_assets' = assets
          /\ IF AssetsComplete(assets, pp_prompts)
             THEN /\ pp_state' = "ASSETS_READY"
                  /\ pp_queue' = Append(Tail(pp_queue), Job("RENDER", 0))
             ELSE /\ pp_state' = "GENERATING_ASSETS"
                  /\ pp_queue' = Tail(pp_queue)
    /\ pp_ran' = Append(pp_ran, Head(pp_queue))
    /\ UNCHANGED <<pp_audio_uri, pp_segments, pp_prompts, pp_regenerated>>
    /\ UNCHANGED notProd

\* run_next of RENDER
HandleRender ==
    /\ NextJobIs("RENDER")
    /\ pp_state' = "DONE"
    /\ pp_audio_uri' = "final"
    /\ pp_queue' = Tail(pp_queue)
    /\ pp_ran' = Append(pp_ran, Head(pp_queue))
    /\ UNCHANGED <<pp_segments, pp_prompts, pp_assets, pp_regenerated>>
    /\ UNCHANGED notProd

\* regenerate_segment of a segment that has a prompt, between two jobs
RegenerateSegment ==
    /\ pp_regenerated < MaxRegenerated
    /\ pp_prompts # Unset
    /\ \E segment_id \in 1..Len(pp_prompts) :
          /\ pp_prompts' = [pp_prompts EXCEPT ![segment_id] = @ + 1]
          /\ pp_assets' = Append(pp_assets,
                                 [segment_id |-> segment_id,
                                  version |-> pp_prompts[segment_id] + 1])
    /\ pp_regenerated' = pp_regenerated + 1
    /\ UNCHANGED <<pp_state, pp_audio_uri, pp_queue, pp_segments, pp_ran>>
    /\ UNCHANGED notProd

----------------------------------------------------------------------------
(* Specifications, one per component                                        *)

NormIdle ==
    /\ nz_pc = "idle"
    /\ nz_in = <<>>
    /\ segments = <<>>
    /\ current_time = RZero
    /\ nz_i = 0
    /\ scale_factor = ROne
    /\ nz_trace = <<>>

StoreIdle ==
    /\ stored_segments = <<>>
    /\ images = {}
    /\ prompts = <<>>
    /\ audio_present = FALSE
    /\ renders = <<>>

InitNorm == NormInit /\ StoreIdle /\ RenderIdle /\ CropIdle /\ LayoutIdle /\ SrtIdle /\ PlaceIdle /\ JobIdle /\ TransIdle /\ ReqIdle /\ CueIdle /\ ProdIdle
NextNorm == NormalizeBegin \/ NormalizeSegment \/ NormalizeFinish
SpecNorm == InitNorm /\ [][NextNorm]_vars

InitRender == StoreInit /\ RenderIdle /\ NormIdle /\ CropIdle /\ LayoutIdle /\ SrtIdle /\ PlaceIdle /\ JobIdle /\ TransIdle /\ ReqIdle /\ CueIdle /\ ProdIdle
SpecRender == InitRender /\ [][NextRender]_vars

InitCrop == CropInit /\ NormIdle /\ StoreIdle /\ RenderIdle /\ LayoutIdle /\ SrtIdle /\ PlaceIdle /\ JobIdle /\ TransIdle /\ ReqIdle /\ CueIdle /\ ProdIdle
NextCrop == ApplyEffect \/ MakeFrame
SpecCrop == InitCrop /\ [][NextCrop]_vars

InitLayout == LayoutInit /\ NormIdle /\ StoreIdle /\ RenderIdle /\ CropIdle /\ SrtIdle /\ PlaceIdle /\ JobIdle /\ TransIdle /\ ReqIdle /\ CueIdle /\ ProdIdle
NextLayout == SkipEmptyCue \/ ComputeLayout \/ SkipCue \/ RenderWord \/ RenderStandard
SpecLayout == InitLayout /\ [][NextLayout]_vars

InitSrt == SrtInit /\ NormIdle /\ StoreIdle /\ RenderIdle /\ CropIdle /\ LayoutIdle /\ PlaceIdle /\ JobIdle /\ TransIdle /\ ReqIdle /\ CueIdle /\ ProdIdle
NextSrt == EncodeSeconds \/ ParseTimestamp \/ ParseNumber \/ ReEncode
SpecSrt == InitSrt /\ [][NextSrt]_vars

InitPlace == PlaceInit /\ NormIdle /\ StoreIdle /\ RenderIdle /\ CropIdle /\ LayoutIdle /\ SrtIdle /\ JobIdle /\ TransIdle /\ ReqIdle /\ CueIdle /\ ProdIdle
NextPlace == KaraokeBackground \/ PositionAndAddClip
SpecPlace == InitPlace /\ [][NextPlace]_vars

InitJob == JobInit /\ NormIdle /\ StoreIdle /\ RenderIdle /\ CropIdle /\ LayoutIdle /\ SrtIdle /\ PlaceIdle /\ TransIdle /\ ReqIdle /\ CueIdle /\ ProdIdle
NextJob ==
    \/ BeginStep \/ BillingFails \/ ImageProgress \/ EncoderEvent
    \/ StepSucceeds \/ Complete \/ StepRetried \/ StepFails \/ RunAgain
SpecJob == InitJob /\ [][NextJob]_vars

InitTrans == TransInit /\ NormIdle /\ StoreIdle /\ RenderIdle /\ CropIdle /\ LayoutIdle /\ SrtIdle /\ PlaceIdle /\ JobIdle /\ ReqIdle /\ CueIdle /\ ProdIdle
NextTrans == ApplyTransition \/ GetFrame
SpecTrans == InitTrans /\ [][NextTrans]_vars

InitReq == ReqInit /\ NormIdle /\ RenderIdle /\ CropIdle /\ LayoutIdle /\ SrtIdle /\ PlaceIdle /\ JobIdle /\ TransIdle /\ CueIdle /\ ProdIdle
NextReq ==
    \/ \E p \in Requests :
          \/ RequestLoad(p) \/ RequestSave(p) \/ RequestPath(p)
          \/ RequestWriteBegin(p) \/ RequestWriteEnd(p)
    \/ UpdateLoad \/ UpdateSave
SpecReq == InitReq /\ [][NextReq]_vars

InitCue == CueInit /\ NormIdle /\ StoreIdle /\ RenderIdle /\ CropIdle /\ LayoutIdle /\ SrtIdle /\ PlaceIdle /\ JobIdle /\ TransIdle /\ ReqIdle /\ ProdIdle
NextCue == ImportSrt \/ UpdateEntries \/ LoadSubtitles \/ AddSubtitlesParse
SpecCue == InitCue /\ [][NextCue]_vars

InitProd == ProdInit /\ NormIdle /\ StoreIdle /\ RenderIdle /\ CropIdle /\ LayoutIdle /\ SrtIdle /\ PlaceIdle /\ JobIdle /\ TransIdle /\ ReqIdle /\ CueIdle
NextProd ==
    \/ UploadAudio \/ HandleAnalyzeAudio \/ HandleStoryboard \/ HandlePromptFactory
    \/ HandleGenerateImage \/ HandleRender \/ RegenerateSegment
SpecProd == InitProd /\ [][NextProd]_vars

----------------------------------------------------------------------------
(* Properties of the timing normalizer                                      *)

NormDone == nz_pc = "done"
SegLength(k) == RSub(segments[k].end_time, segments[k].start_time)

\* C1: tiling. The returned list starts at 0, ends at total_duration, and every
\* segment starts where the previous one ends, in every timing mode (also after
\* the beat-driven snapping of the running start time).
C1_Tiling ==
    NormDone =>
        /\ segments[1].start_time = RZero
        /\ segments[Len(segments)].end_time = nz_in.duration
        /\ \A k \in 1..(Len(segments) - 1) :
              segments[k + 1].start_time = segments[k].end_time

\* a finished beat-driven call in which the loop snapped the start of a segment
\* away from the end of its predecessor
C1_Witness ==
    /\ NormDone
    /\ TimingMode(nz_in) = "beat-driven"
    /\ \E k \in 2..Len(segments) : nz_trace[k].start # segments[k - 1].end_time

\* C2: bounds. Every non-final segment of the returned list has a length within
\* [MIN_DURATION, effective_max], in all three timing modes. Stated for the
\* totals that have room for segment_count segments of MIN_DURATION; for
\* shorter totals no list at all can meet the lower bound.
C2_Bounds ==
    (NormDone /\ RGe(nz_in.duration, RMul(R(Len(segments)), MIN_DURATION))) =>
        \A k \in 1..(Len(segments) - 1) :
            /\ RGe(SegLength(k), MIN_DURATION)
            /\ RLe(SegLength(k), EffectiveMax(nz_in, Len(segments)))

\* C3: every returned segment, the final one included, has end_time > start_time,
\* for every total_duration > 0.
C3_PositiveLength ==
    NormDone => \A k \in 1..Len(segments) : RGt(SegLength(k), RZero)

\* the grid times _select_smart_beat_end may return for a segment that starts at
\* start and has remaining segments after it
ValidGridTimes(in, start, remaining) ==
    { t \in SeqToSet(BeatGrid(in)) :
        /\ RGe(t, RAdd(start, MIN_DURATION))
        /\ RLe(t, RMin(RAdd(start, MAX_DURATION),
                       RSub(in.duration, RMul(R(remaining), MIN_DURATION)))) }

BeatEndRule(in, start, ideal_end, end, valid) ==
    LET Near(t) == RLe(RAbs(RSub(t, ideal_end)), R(2))
    IN  valid # {} =>
            /\ end \in SeqToSet(BeatGrid(in))
            /\ (\E t \in valid : Near(t)) => Near(end)
            /\ ~(\E t \in valid : Near(t)) =>
                  /\ end \in valid
                  /\ \A t \in valid :
                        RLe(RAbs(RSub(end, ideal_end)), RAbs(RSub(t, ideal_end)))

\* C16: in beat-driven mode, whenever a grid time lies in
\* [start + MIN_DURATION, min(start + MAX_DURATION, total - remaining * MIN_DURATION)],
\* the end written for a non-final segment is a grid time (ideal_end itself is
\* not taken over); it is within 2 s of ideal_end whenever a valid grid time is,
\* and otherwise it is the valid grid time nearest to ideal_end.
C16_BeatDrivenEnd ==
    (NormDone /\ TimingMode(nz_in) = "beat-driven") =>
        \A k \in 1..(Len(segments) - 1) :
            BeatEndRule(nz_in, nz_trace[k].start, nz_trace[k].ideal_end,
                        segments[k].end_time,
                        ValidGridTimes(nz_in, nz_trace[k].start, Len(segments) - k))

\* a finished beat-driven call with an end off ideal_end chosen in the window,
\* and one with an end chosen by the fallback, further than 2 s from ideal_end
C16_Witness ==
    /\ NormDone
    /\ TimingMode(nz_in) = "beat-driven"
    /\ Len(segments) >= 3
    /\ \E k \in 1..(Len(segments) - 1) :
          /\ ValidGridTimes(nz_in, nz_trace[k].start, Len(segments) - k) # {}
          /\ segments[k].end_time # nz_trace[k].ideal_end
          /\ RLe(RAbs(RSub(segments[k].end_time, nz_trace[k].ideal_end)), R(2))
    /\ \E k \in 1..(Len(segments) - 1) :
          /\ ValidGridTimes(nz_in, nz_trace[k].start, Len(segments) - k) # {}
          /\ RGt(RAbs(RSub(segments[k].end_time, nz_trace[k].ideal_end)), R(2))

\* the end the loop writes in structure-driven mode
StructureEnd(in, start, ideal_end, remaining) ==
    FinalSafety(in, start,
                RMin(ideal_end, RSub(in.duration, RMul(R(remaining), MIN_DURATION))),
                remaining)

\* C17: with fewer than 2 beat times the call runs as structure-driven whatever
\* beat_confidence is: every segment starts at the running time its predecessor
\* left (no snap of the start) and every non-final end is the structure-driven
\* end min(ideal_end, headroom) under the final safety clamps (no grid time).
C17_FewBeatsStructureDriven ==
    (NormDone /\ Len(nz_in.beat_times) < 2) =>
        /\ \A k \in 2..Len(segments) : nz_trace[k].start = segments[k - 1].end_time
        /\ \A k \in 1..(Len(segments) - 1) :
              segments[k].end_time =
                  StructureEnd(nz_in, nz_trace[k].start, nz_trace[k].ideal_end,
                               Len(segments) - k)

\* the weight the scaling is said to give a suggested duration
StatedWeight(suggested) == IF suggested = RZero THEN R(3) ELSE suggested

\* C18: after the first pass, a segment of zero suggested duration carries the
\* weight of a 3.0 s segment, every other segment the weight end - start, and
\* the scaling factor is total_duration over the sum of these weights.
C18_ZeroDurationWeight ==
    (nz_pc = "loop" /\ nz_i = 0) =>
        /\ \A k \in 1..Len(segments) :
              segments[k].orig = StatedWeight(nz_in.sugg[k])
        /\ scale_factor =
              RDiv(nz_in.duration,
                   RSum([k \in 1..Len(segments) |-> StatedWeight(nz_in.sugg[k])]))

\* statistics.median of a non-empty sequence
Median(s) ==
    LET Middle(sorted, n) ==
            IF n % 2 = 1 THEN sorted[(n + 1) \div 2]
            ELSE RDiv(RAdd(sorted[n \div 2], sorted[n \div 2 + 1]), R(2))
    IN  Middle(SortSeq(s, RLt), Len(s))

\* the spacings of consecutive structural boundaries
Spacings(sp) == [k \in 1..(Len(sp) - 1) |-> RSub(sp[k + 1], sp[k])]

\* the end stated for structure-driven mode: the nearest structural boundary
\* when it lies within the corridor around ideal_end, taken here as half the
\* median spacing of the boundaries, and ideal_end otherwise
StatedStructureTarget(ideal_end, sp) ==
    LET Within(nearest, corridor) ==
            IF RLe(RAbs(RSub(nearest, ideal_end)), corridor) THEN nearest
            ELSE ideal_end
    IN  IF Len(sp) < 2 THEN ideal_end
        ELSE Within(NearestTime(ideal_end, sp), RDiv(Median(Spacings(sp)), R(2)))

\* C19: in structure-driven mode the end of a non-final segment is the nearest
\* structural boundary when that boundary lies within the corridor of ideal_end,
\* and ideal_end otherwise, in both cases under the headroom for the remaining
\* segments and the final safety clamps.
C19_StructuralSnap ==
    (NormDone /\ TimingMode(nz_in) = "structure-driven") =>
        \A k \in 1..(Len(segments) - 1) :
            segments[k].end_time =
                StructureEnd(nz_in, nz_trace[k].start,
                             StatedStructureTarget(nz_trace[k].ideal_end,
                                                   StructuralPoints(nz_in)),
                             Len(segments) - k)

\* total_duration - count * MIN_DURATION
Headroom(in, count) == RSub(in.duration, RMul(R(count), MIN_DURATION))

\* C20: in every timing mode the end written for a non-final segment leaves
\* MIN_DURATION for each segment after it; and when total_duration holds
\* segment_count segments of MIN_DURATION, the running current_time before a
\* segment leaves MIN_DURATION for that segment and each one after it, in
\* structure-driven and beat-assisted mode.
C20_Headroom ==
    nz_pc \in {"loop", "done"} =>
        /\ \A k \in 1..nz_i :
              k < Len(segments) =>
                  RLe(segments[k].end_time, Headroom(nz_in, Len(segments) - k))
        /\ ( /\ nz_pc = "loop"
             /\ nz_i < Len(segments)
             /\ TimingMode(nz_in) # "beat-driven"
             /\ RGe(nz_in.duration, RMul(R(Len(segments)), MIN_DURATION)) ) =>
                RLe(current_time, Headroom(nz_in, Len(segments) - nz_i))

\* a call outside beat-driven mode, with room for every segment, in which the
\* headroom cut the end just written below ideal_end and segments are still to
\* come
C20_Witness ==
    /\ nz_pc = "loop"
    /\ nz_i >= 2
    /\ nz_i < Len(segments)
    /\ TimingMode(nz_in) # "beat-driven"
    /\ RGe(nz_in.duration, RMul(R(Len(segments)), MIN_DURATION))
    /\ segments[nz_i].end_time = Headroom(nz_in, Len(segments) - nz_i)
    /\ RGt(nz_trace[nz_i].ideal_end, segments[nz_i].end_time)
    /\ current_time = segments[nz_i].end_time

----------------------------------------------------------------------------
(* Properties of the timeline assembler                                     *)

VideoBuilt == r_video # NoVideo

\* C4: in the concatenated video every clip starts at its segment's start_time
\* and the video is as long as the last segment's end_time, for every segment
\* list given to render (also with skipped segments).
C4_TimelineSync ==
    VideoBuilt =>
        /\ \A j \in 1..Len(r_clips) :
              r_video.starts[j] = r_segments[r_clips[j].seg].start_time
        /\ r_video.duration = r_segments[Len(r_segments)].end_time

\* C8: a render that fails leaves no file in the renders directory that was not
\* there before the call.
C8_NoArtifactOnFailure ==
    r_pc = "failed" => renders = r_before.renders

\* C9: after a render that fails, the stored segments are identical to those
\* before the call.
C9_StoredSegmentsOnFailure ==
    r_pc = "failed" => stored_segments = r_before.segments

ConcreteEffect(seg) == seg.effect \notin {"", "random"}
ConcreteTransition(seg) == seg.transition # "random"

\* C10: resolve-once. No step changes a stored effect or transition that holds a
\* concrete value; and once a segment's clip is in a built video, its stored
\* effect (and, for a non-first segment, transition) is concrete and every
\* render has used one and the same effect and transition kind for it.
C10_ResolveOnce ==
    [][ /\ \A k \in 1..Len(stored_segments) :
             /\ ConcreteEffect(stored_segments[k])
                  => stored_segments'[k].effect = stored_segments[k].effect
             /\ ConcreteTransition(stored_segments[k])
                  => stored_segments'[k].transition = stored_segments[k].transition
        /\ \A k \in DOMAIN rendered' :
             rendered'[k] # {} =>
                 /\ ConcreteEffect(stored_segments'[k])
                 /\ TransitionApplies(k) => ConcreteTransition(stored_segments'[k])
                 /\ Cardinality(rendered'[k]) = 1
      ]_vars

\* a second render has completed, and a segment whose kinds only the random
\* draw produces was in both videos
C10_Witness ==
    /\ r_count = 2
    /\ r_pc = "done"
    /\ \E k \in DOMAIN rendered : rendered[k] = {<<"zoom_in", "slide_left">>}

C25_FirstClipPlain ==
    (r_pc = "save" /\ r_clips # <<>>) =>
        /\ r_clips[1].transition = "none"
        /\ \A j \in 2..Len(r_clips) : r_clips[j].transition # "none"

----------------------------------------------------------------------------
(* Properties of the motion effect generator                                *)

\* C5: crop safety. The crop rectangle make_frame uses is non-empty and lies
\* within the (possibly upscaled) source, 0 <= x1 < x2 <= w and
\* 0 <= y1 < y2 <= h, and the frame returned is exactly tw x th, for every image
\* size, target size, effect and t in [0, duration]; when the computed crop is
\* empty the centred cover rectangle is used instead (centred within the int()
\* truncations, spanning the image along one axis).
C5_CropSafety ==
    fx_frame # NoFrame =>
        /\ 0 <= fx_frame.x1 /\ fx_frame.x1 < fx_frame.x2 /\ fx_frame.x2 <= fx_img.w
        /\ 0 <= fx_frame.y1 /\ fx_frame.y1 < fx_frame.y2 /\ fx_frame.y2 <= fx_img.h
        /\ fx_frame.size = <<fx_in.tw, fx_in.th>>
        /\ fx_frame.fallback =>
              /\ Abs(fx_frame.x1 + fx_frame.x2 - fx_img.w) <= 2
              /\ Abs(fx_frame.y1 + fx_frame.y2 - fx_img.h) <= 2
              /\ \/ fx_frame.x2 - fx_frame.x1 = fx_img.w
                 \/ fx_frame.y2 - fx_frame.y1 = fx_img.h

\* a frame whose computed crop was empty and was replaced
C5_Witness ==
    /\ fx_frame # NoFrame
    /\ fx_frame.fallback

----------------------------------------------------------------------------
(* Properties of the subtitle layout                                        *)

\* the geometry of a token that a frame may not change
DrawnGeometry(d) == <<d.line, d.slot, d.box, d.at>>

\* C6: layout stability. In karaoke mode the layout of a cue is computed once
\* and _render_layout never modifies it: the frames rendered for any two values
\* of active_word_index have the same canvas size and, token by token, the same
\* line, the same slot width (total_width), the same box rectangle and the same
\* draw position, which are those of the layout.
C6_LayoutStability ==
    kl_in # <<>> /\ kl_in.hl_active_word =>
        /\ \A a \in 1..Len(kl_frames), b \in 1..Len(kl_frames) :
              /\ kl_frames[a].size = kl_frames[b].size
              /\ Len(kl_frames[a].draws) = Len(kl_frames[b].draws)
              /\ \A n \in 1..Len(kl_frames[a].draws) :
                    DrawnGeometry(kl_frames[a].draws[n])
                        = DrawnGeometry(kl_frames[b].draws[n])
        /\ \A a \in 1..Len(kl_frames) :
              /\ kl_frames[a].size = <<kl_layout.w, kl_layout.h>>
              /\ \A n \in 1..Len(kl_frames[a].draws) :
                    LET t == Flatten(kl_layout.lines)[n]
                    IN  DrawnGeometry(kl_frames[a].draws[n])
                            = <<t.line, t.total_width, t.box, <<t.x, t.y>>>>

\* a karaoke cue with padded words wrapped onto two lines, rendered once per word
C6_Witness ==
    /\ kl_pc = "done"
    /\ kl_in.hl_active_word
    /\ kl_in.hl_padding > 0
    /\ Len(kl_layout.lines) >= 2
    /\ Len(kl_frames) >= 3
    /\ kl_frames[1].active # kl_frames[2].active

\* C15: in the layout every word of the cue is one token; its reserved slot
\* width and the width of its box are text_width(word) + 2 * highlight_padding
\* if the word is inside an <h> span or karaoke mode is on, and text_width(word)
\* otherwise; only the words inside <h> spans are marked highlighted.
C15_TokenSlots ==
    kl_pc \in {"laid", "done"} /\ RGt(CueDuration(kl_in), RZero) =>
        LET tokens == Flatten(kl_layout.lines)
            words == Flatten(kl_in.text)
        IN  /\ Len(tokens) = Len(words)
            /\ \A n \in 1..Len(tokens) :
                  LET slot == words[n].width
                                + (IF words[n].hl \/ kl_in.hl_active_word
                                   THEN 2 * kl_in.hl_padding ELSE 0)
                  IN  /\ tokens[n].total_width = slot
                      /\ tokens[n].box[3] - tokens[n].box[1] = slot
                      /\ tokens[n].hl = words[n].hl

\* C13: karaoke timing. A karaoke cue with word_count >= 1 words and duration d
\* produces exactly word_count text clips; clip i has active_word_index i,
\* starts at cue.start + i * (d / word_count) and lasts d / word_count, so
\* consecutive clips meet without gap or overlap and the last one ends at
\* cue.end.
C13_KaraokeTiming ==
    kl_pc \in {"laid", "done"} /\ kl_in.hl_active_word /\ WordCount(kl_layout) >= 1 =>
        LET n == WordCount(kl_layout)
            each == RDiv(RSub(kl_in.end_time, kl_in.start_time), R(n))
        IN  /\ Len(kl_frames) <= n
            /\ kl_pc = "done" => Len(kl_frames) = n
            /\ \A i \in 1..Len(kl_frames) :
                  /\ kl_frames[i].active = i - 1
                  /\ kl_frames[i].start = RAdd(kl_in.start_time, RMul(R(i - 1), each))
                  /\ kl_frames[i].duration = each
                  /\ i < Len(kl_frames) =>
                        RAdd(kl_frames[i].start, kl_frames[i].duration)
                            = kl_frames[i + 1].start
                  /\ i = n =>
                        RAdd(kl_frames[i].start, kl_frames[i].duration) = kl_in.end_time

\* a karaoke cue of three words from 0.5 s to 2 s, all three clips added
C13_Witness ==
    /\ kl_pc = "done"
    /\ kl_in.hl_active_word
    /\ kl_in.start_time = Frac(1, 2)
    /\ Len(kl_frames) = 3
    /\ kl_frames[3].start = Frac(3, 2)

\* the width of a line: its slots and the spaces between them
LineWidth(line, in) ==
    Sum([i \in 1..Len(line) |-> line[i].total_width]) + (Len(line) - 1) * in.space_w

\* the index, among all tokens, of the first token of element j of a list of
\* token lists
FirstIndex(lists, j) == 1 + Sum([i \in 1..(j - 1) |-> Len(lists[i])])

\* the first tokens of the explicit lines of the cue text
ExplicitStarts(text) ==
    { FirstIndex(text, e) : e \in { e \in 1..Len(text) : text[e] # <<>> } }

\* C21: the wrapping is greedy and lossless. Every line holds a token; a line of
\* two or more tokens is at most max_width wide, spaces included; a token that
\* is not the first of an explicit line starts a new line only when it does not
\* fit behind the line before it; the lines read in order are the words of the
\* cue in their order.
C21_GreedyWrap ==
    kl_pc \in {"laid", "done"} /\ RGt(CueDuration(kl_in), RZero) =>
        LET lines == kl_layout.lines
        IN  /\ \A j \in 1..Len(lines) : Len(lines[j]) >= 1
            /\ \A j \in 1..Len(lines) :
                  Len(lines[j]) >= 2 => LineWidth(lines[j], kl_in) <= kl_in.max_width
            /\ \A j \in 2..Len(lines) :
                  FirstIndex(lines, j) \notin ExplicitStarts(kl_in.text) =>
                      LineWidth(lines[j - 1], kl_in) + kl_in.space_w
                          + lines[j][1].total_width > kl_in.max_width
            /\ [n \in 1..WordCount(kl_layout) |->
                    [width |-> Flatten(lines)[n].width, hl |-> Flatten(lines)[n].hl]]
                  = Flatten(kl_in.text)

\* one explicit line wrapped into a line of several tokens, filled exactly, and
\* a further line
C21_Witness ==
    /\ kl_pc = "laid"
    /\ Len(kl_in.text) = 1
    /\ Len(kl_layout.lines) >= 2
    /\ \E j \in 1..Len(kl_layout.lines) :
          /\ Len(kl_layout.lines[j]) >= 2
          /\ LineWidth(kl_layout.lines[j], kl_in) = kl_in.max_width

----------------------------------------------------------------------------
(* Properties of the SRT time utilities                                     *)

\* C7: time round-trip. For every time x with millisecond precision,
\* seconds_to_srt_time(x) has exactly the digits HH:MM:SS,mmm of x, and
\* seconds_to_srt_time(srt_time_to_seconds(x)) equals it, so that parsing a
\* canonical timestamp and encoding the result gives the timestamp back.
C7_SrtRoundTrip ==
    /\ st_pc \in {"encoded", "parsed", "done"} => st_text = st_in
    /\ st_pc = "done" => st_round = st_text

----------------------------------------------------------------------------
(* Properties of the subtitle overlay placement                             *)

\* C12: for every position, every margin_y >= 0 and every overlay height, the
\* overlay placed by _position_and_add_clip lies vertically inside the frame,
\* 0 <= y_pos and y_pos + clip_h <= video_h, and is centred horizontally,
\* x_pos = (video_w - clip_w) // 2.
C12_OverlayInFrame ==
    pl_pc = "placed" =>
        /\ 0 <= pl_clip.y_pos
        /\ pl_clip.y_pos + pl_clip.clip_h <= pl_in.video_h
        /\ pl_clip.x_pos = (pl_in.video_w - pl_clip.clip_w) \div 2

\* C23: for the animations fade and pop, in normal and in karaoke mode, the
\* entrance and the exit window of the overlay and of every background box are
\* at most 0.3 s and at most half the duration of the cue.
C23_AnimationWindows ==
    (pl_in # <<>> /\ pl_in.cue.animation \in {"fade", "pop"}) =>
        LET Short(window) ==
                /\ RLe(window, Frac(3, 10))
                /\ RLe(window, RDiv(pl_in.cue.duration, R(2)))
        IN  /\ Short(pl_anim.entrance) /\ Short(pl_anim.exit)
            /\ \A k \in 1..Len(pl_bg) :
                  Short(pl_bg[k].entrance) /\ Short(pl_bg[k].exit)

----------------------------------------------------------------------------
(* Properties of the job progress                                           *)

\* C14: the progress values written to a job record during one run are
\* non-decreasing and lie in 0..100, whatever the encoder reports on its bars
\* and also when a step is retried.
C14_ProgressMonotone ==
    \A i \in 1..Len(jb_log) :
        /\ jb_log[i] \in 0..100
        /\ i > 1 => jb_log[i - 1] <= jb_log[i]

\* a step of this run invokes the action of the step under way
ActionInvoked == jb_attempt' # jb_attempt /\ jb_attempt' >= 1

\* C24: in run_full_pipeline the actions are invoked in the order analysis,
\* segments, prompts, images, render, each at most twice; the next step is
\* reached only when the action of the step under way returned; after a step
\* failed on both attempts nothing more is invoked in the run, and the run ends
\* FAILED / FAILED, or DONE / DONE after the render step returned.
C24_StepOrder ==
    [][ (jb_in.entry = "run_full_pipeline" /\ jb_runs' = jb_runs) =>
            /\ ActionInvoked =>
                  /\ jb_attempt' <= 2
                  /\ jb_pc \in {"begin", "running"}
                  /\ jb_step' = jb_step
                  /\ jb_attempt' = 1 <=> jb_pc = "begin"
            /\ jb_step' # jb_step =>
                  /\ jb_pc = "running" /\ jb_pc' = "begin"
                  /\ jb_step' = NextStep(jb_step)
                  /\ jb_job.status = "RUNNING"
            /\ (jb_pc = "begin" /\ jb_runs = 1) =>
                  jb_step = (IF jb_attempt = 0 THEN "analysis" ELSE jb_step)
            /\ jb_pc \in {"done", "failed"} => UNCHANGED jobVars
            /\ jb_pc' = "failed" =>
                  jb_job'.status = "FAILED" /\ jb_project' = "FAILED"
            /\ jb_pc' = "done" =>
                  /\ jb_step = "render"
                  /\ jb_job'.status = "DONE" /\ jb_project' = "DONE"
      ]_vars

\* a run in which the first two steps succeeded, the second on its retry, and
\* the prompts step has failed on both attempts
C24_Witness ==
    /\ jb_in.entry = "run_full_pipeline"
    /\ jb_pc = "failed"
    /\ jb_step = "prompts"
    /\ jb_attempt = 2
    /\ jb_job = [status |-> "FAILED", error |-> TRUE]
    /\ jb_project = "FAILED"
    /\ jb_log = <<5, 15, 25>>

\* C26: a job record with status DONE holds no "error" of an earlier failed
\* attempt or run.
C26_DoneWithoutError ==
    jb_job.status = "DONE" => ~jb_job.error

----------------------------------------------------------------------------
(* Properties of the entrance transitions                                   *)

\* the offset of the incoming clip at t = 0
FullOffset(in) ==
    CASE in.transition = "slide_left" -> <<in.w, 0>>
      [] in.transition = "slide_right" -> <<-in.w, 0>>
      [] in.transition = "slide_up" -> <<0, in.h>>
      [] in.transition = "slide_down" -> <<0, -in.h>>

Magnitude(pos) == Abs(pos[1]) + Abs(pos[2])

\* C22: a slide starts at the full frame offset in the direction of its tag, the
\* magnitude of its offset never grows from one frame to the next, and from
\* t = transition_duration on the position is (0, 0).
C22_SlideIn ==
    tr_in # <<>> /\ tr_in.transition \in SlideTransitions =>
        /\ \A k \in 1..Len(tr_frames) :
              /\ tr_frames[k].t = RZero => tr_frames[k].pos = FullOffset(tr_in)
              /\ RGe(tr_frames[k].t, transition_duration) => tr_frames[k].pos = <<0, 0>>
        /\ \A k \in 2..Len(tr_frames) :
              Magnitude(tr_frames[k].pos) <= Magnitude(tr_frames[k - 1].pos)

\* a slide played from its first frame past the end of the transition, the
\* frame at t = transition_duration included
C22_Witness ==
    /\ tr_pc = "playing"
    /\ tr_in.transition = "slide_right"
    /\ Len(tr_frames) >= 6
    /\ tr_frames[5].t = transition_duration
    /\ tr_frames[2].pos[1] < 0
    /\ tr_frames[6].pos = <<0, 0>>

----------------------------------------------------------------------------
(* Properties of the concurrent requests                                   *)

\* C27: two renders of the same project that run at the same time write to
\* distinct output paths final_v{n}.mp4, and no render writes to the path of a
\* render file that already exists.
C27_DistinctOutputs ==
    \A i \in 1..Len(rq_writes) :
        /\ ~rq_writes[i].existed
        /\ \A j \in 1..Len(rq_writes) :
              i # j => rq_writes[i].path # rq_writes[j].path

\* C28: a segment edit stored by update_segment while a render is in progress
\* is not lost: once the render has saved its resolved kinds, the stored
\* segments still hold the edit.
C28_EditKept ==
    (ed_pc = "done" /\ \A p \in Requests : rq_pc[p] \notin {"idle", "loaded"}) =>
        stored_segments[ed_in.seg_id].effect = ed_in.effect

----------------------------------------------------------------------------
(* Properties of the stored subtitle file                                  *)

\* C29: for every stored SRT file, imported raw or written by update_entries,
\* the renderer's parser yields the same cues as the subtitle service's
\* parser: as many cues, each with the same text and the same start and end
\* seconds, so that no cue of the editor is missing from the video.
C29_SameCues ==
    cf_pc = "rendered" =>
        /\ Len(cf_cues) = Len(cf_entries)
        /\ \A k \in 1..Len(cf_entries) :
              k <= Len(cf_cues) =>
                  /\ cf_cues[k].text = cf_entries[k].text
                  /\ cf_cues[k].start_seconds = SrtTimeToSeconds(cf_entries[k].start_time)
                  /\ cf_cues[k].end_seconds = SrtTimeToSeconds(cf_entries[k].end_time)

----------------------------------------------------------------------------
(* Properties of the production pipeline                                   *)

\* the RENDER jobs enqueued so far: those run and those waiting
RenderJobs ==
    Cardinality({k \in 1..Len(pp_ran) : pp_ran[k].name = "RENDER"})
    + Cardinality({k \in 1..Len(pp_queue) : pp_queue[k].name = "RENDER"})

\* C30: after upload_audio, once the queue has been run until it is empty,
\* with regenerate_segment called between jobs in any order and for any
\* number of segments, the project is DONE, exactly one RENDER job was
\* enqueued, and it ran after every GENERATE_IMAGE job.
C30_DrainRendersOnce ==
    (pp_audio_uri # "" /\ pp_queue = <<>>) =>
        /\ pp_state = "DONE"
        /\ RenderJobs = 1
        /\ \A i, j \in 1..Len(pp_ran) :
              (pp_ran[i].name = "RENDER" /\ pp_ran[j].name = "GENERATE_IMAGE") => j < i

============================================================================
